---- MODULE Spec2Model ----
(***************************************************************************)
(* State-machine model of the meeting summarizer's extraction engine:      *)
(*   src/src/utils/text_processor.py     TextProcessor                      *)
(*   src/src/utils/patterns.py           PatternConfig                      *)
(*   src/src/analyzers/meeting_analyzer.py  EnterpriseAnalyzer              *)
(*   src/src/analyzers/llm_analyzer.py   LLMAnalyzer                        *)
(*                                                                         *)
(* A Python str is modelled as a sequence of tokens.  A token is a maximal *)
(* run of word characters (what \w+ matches), or one whitespace character, *)
(* or one punctuation character.  len() of a str is the sum of the token   *)
(* lengths.  Confidences are integers in hundredths (0.95 is 95),          *)
(* sentiment percentages are integers in tenths (33.3 is 333).             *)
(***************************************************************************)
EXTENDS Integers, Sequences, FiniteSets, TLC

VARIABLES
    hashSeed,          \* the process's string-hash seed (fixes set iteration order)
    fault,             \* the extractor that has a defect and raises ("none" if none)
    analyzer,          \* which analyze_meeting is running: "none", "pattern", "llm"
    pc,                \* position inside the running analyze_meeting
    transcript,        \* the argument of the call
    sentences,         \* EnterpriseAnalyzer.analyze_meeting locals
    decisions,
    action_items,
    metadata,
    sentiment,
    risks,
    stats,
    prompt,            \* the transcript text placed in the prompt sent to the service
    remote,            \* what the remote service does in this call
    response_text,     \* LLMAnalyzer.analyze_meeting locals
    parsed,
    invocations,       \* number of self.llm.invoke calls made in this call
    result,            \* the MeetingAnalysis returned to the caller
    raised,            \* the exception that reached the caller ("none" if none)
    previous,          \* the preceding completed call: its transcript and result
    scan_sentence,     \* _analyze_sentiment's loop variable `sentence`
    sentiment_scores,  \* _analyze_sentiment's counters while its loop runs
    scanned,           \* sentences consumed so far by that loop
    progress,          \* per extractor: sentences consumed, and whether it returned
    ui                 \* main(): its position, its locals and what it has shown

vars == <<hashSeed, fault, analyzer, pc, transcript, sentences, decisions,
          action_items, metadata, sentiment, risks, stats, prompt, remote,
          response_text, parsed, invocations, result, raised, previous,
          scan_sentence, sentiment_scores, scanned, progress, ui>>

----------------------------------------------------------------------------
(* Bounds of the model. *)

MaxSegments == 2          \* paragraphs per transcript in Spec
RepeatSegments == 1       \* paragraphs per transcript in SpecRepeat
MaxScanned == 6           \* sentences fed to the sentiment loop in SpecSentiment

----------------------------------------------------------------------------
(* Characters and strings. *)

Whitespace == {" ", "\n", "\t"}
Terminators == {".", "!", "?"}
Punctuation == {",", ":", "-"}

IsWord(tok) == tok \notin (Whitespace \cup Terminators \cup Punctuation)

\* len(s): the characters of the tokens, summed by halves.
RECURSIVE StrLen(_)
StrLen(s) ==
    IF Len(s) = 0 THEN 0
    ELSE IF Len(s) = 1 THEN Len(s[1])
    ELSE StrLen(SubSeq(s, 1, Len(s) \div 2))
         + StrLen(SubSeq(s, Len(s) \div 2 + 1, Len(s)))

RECURSIVE DropLeading(_, _)
DropLeading(s, chars) ==
    IF s # <<>> /\ Head(s) \in chars THEN DropLeading(Tail(s), chars) ELSE s

RECURSIVE DropTrailing(_, _)
DropTrailing(s, chars) ==
    IF s # <<>> /\ s[Len(s)] \in chars
    THEN DropTrailing(SubSeq(s, 1, Len(s) - 1), chars)
    ELSE s

\* str.strip()
Strip(s) == DropTrailing(DropLeading(s, Whitespace), Whitespace)

\* The paragraphs transcripts are built from (the input alphabet of the model).
FRAG == <<" ", "Thanks", " ", "all", ".", "\n">>
BOTH == <<"Final", " ", "decision", " ", "approved", " ", "by", " ", "Alice",
          " ", "Bob", " ", "and", " ", "Carol", ":", " ", "we", " ", "decided",
          " ", "to", " ", "hire", " ", "Dave", " ", "and", " ", "Eve", ".",
          " ", "Action", " ", "item", ":", " ", "Eve", " ", "-", " ", "assign",
          " ", "Frank", " ", "to", " ", "review", " ", "the", " ", "timeline",
          " ", "by", " ", "Friday", ",", " ", "Eve", " ", "is", " ",
          "responsible", " ", "for", " ", "it", " ", "and", " ", "must", " ",
          "get", " ", "it", " ", "approved", " ", "by", " ", "Frank", " ",
          "asap", "!">>
MIX == <<"Great", " ", "news", " ", "but", " ", "a", " ", "problem", " ", " ",
         "came", " ", "up", ",", "\n", " ", "Grace", " ", "Heidi", " ", "Ivan",
         " ", "will", " ", "discuss", " ", "the", " ", "updates", "?", "!", " ",
         "Next", " ", "meeting", " ", "Monday", " ", "with", " ", "Judy", " ",
         "Mallory", " ", "and", " ", "Niaj", " ", "-", " ", "delay", " ", "is",
         " ", "a", " ", "risk", ".">>
SARAH == <<"Sarah", " ", "will", " ", "lead", " ", "the", " ", "technical", " ",
           "implementation", " ", "and", " ", "must", " ", "have", " ", "the",
           " ", "MVP", " ", "ready", " ", "by", " ", "March", " ", "15th", ".">>
PLAT == <<"We", " ", "decided", " ", "to", " ", "implement", " ", "the", " ",
          "new", " ", "platform", " ", "by", " ", "Q2", ".">>

Paragraphs == <<FRAG, BOTH, MIX, SARAH, PLAT>>

\* A sentence with keywords of two priority buckets.
URGENT == <<"Bob", " ", "should", " ", "review", " ", "the", " ", "urgent",
            " ", "timeline", ".">>

\* str.lower() on the tokens of the alphabet that hold an upper-case letter.
LowerTable ==
    ("Action" :> "action") @@ ("Alice" :> "alice") @@ ("Bob" :> "bob") @@
    ("Carol" :> "carol") @@ ("Dave" :> "dave") @@ ("Eve" :> "eve") @@
    ("Final" :> "final") @@ ("Frank" :> "frank") @@ ("Friday" :> "friday") @@
    ("Grace" :> "grace") @@ ("Great" :> "great") @@ ("Heidi" :> "heidi") @@
    ("Ivan" :> "ivan") @@ ("Judy" :> "judy") @@ ("MVP" :> "mvp") @@
    ("Mallory" :> "mallory") @@ ("March" :> "march") @@
    ("Monday" :> "monday") @@ ("Next" :> "next") @@ ("Niaj" :> "niaj") @@
    ("Q2" :> "q2") @@ ("Sarah" :> "sarah") @@ ("Thanks" :> "thanks") @@
    ("We" :> "we")

LowerTok(tok) == IF tok \in DOMAIN LowerTable THEN LowerTable[tok] ELSE tok

\* str.lower()
Lower(s) == [i \in 1..Len(s) |-> LowerTok(s[i])]

\* The tokens of the alphabet that str.capitalize() and str.title() leave
\* alone or change other than by raising the first letter.
CapitalizeSpecial == ("15th" :> "15th")
TitleSpecial == ("15th" :> "15Th")

\* Raising the first letter of a lower-case token of the alphabet.
UpperFirstTable ==
    ("a" :> "A") @@ ("alice" :> "Alice") @@ ("all" :> "All") @@
    ("and" :> "And") @@ ("approved" :> "Approved") @@ ("asap" :> "Asap") @@
    ("action" :> "Action") @@ ("assign" :> "Assign") @@ ("bob" :> "Bob") @@
    ("but" :> "But") @@ ("for" :> "For") @@ ("get" :> "Get") @@
    ("it" :> "It") @@ ("item" :> "Item") @@
    ("responsible" :> "Responsible") @@
    ("by" :> "By") @@ ("came" :> "Came") @@ ("carol" :> "Carol") @@
    ("dave" :> "Dave") @@ ("decided" :> "Decided") @@
    ("decision" :> "Decision") @@ ("delay" :> "Delay") @@
    ("discuss" :> "Discuss") @@ ("eve" :> "Eve") @@ ("final" :> "Final") @@
    ("frank" :> "Frank") @@ ("friday" :> "Friday") @@ ("grace" :> "Grace") @@
    ("great" :> "Great") @@ ("have" :> "Have") @@ ("heidi" :> "Heidi") @@
    ("hire" :> "Hire") @@ ("implement" :> "Implement") @@
    ("implementation" :> "Implementation") @@ ("is" :> "Is") @@
    ("ivan" :> "Ivan") @@ ("judy" :> "Judy") @@ ("lead" :> "Lead") @@
    ("mallory" :> "Mallory") @@ ("march" :> "March") @@
    ("meeting" :> "Meeting") @@ ("monday" :> "Monday") @@ ("must" :> "Must") @@
    ("mvp" :> "Mvp") @@ ("new" :> "New") @@ ("news" :> "News") @@
    ("next" :> "Next") @@ ("niaj" :> "Niaj") @@ ("platform" :> "Platform") @@
    ("problem" :> "Problem") @@ ("q2" :> "Q2") @@ ("ready" :> "Ready") @@
    ("review" :> "Review") @@ ("risk" :> "Risk") @@ ("sarah" :> "Sarah") @@
    ("should" :> "Should") @@ ("technical" :> "Technical") @@
    ("thanks" :> "Thanks") @@ ("the" :> "The") @@
    ("timeline" :> "Timeline") @@ ("to" :> "To") @@ ("up" :> "Up") @@
    ("update" :> "Update") @@ ("updates" :> "Updates") @@
    ("urgent" :> "Urgent") @@ ("we" :> "We") @@
    ("will" :> "Will") @@ ("with" :> "With")

UpperFirst(tok) ==
    IF tok \in DOMAIN UpperFirstTable THEN UpperFirstTable[tok] ELSE tok

\* str.capitalize() of a lower-case str: first character raised, rest kept.
Capitalize(s) ==
    IF s = <<>> THEN s
    ELSE <<IF Head(s) \in DOMAIN CapitalizeSpecial
           THEN CapitalizeSpecial[Head(s)] ELSE UpperFirst(Head(s))>> \o Tail(s)

\* str.title() of a lower-case str: every alphabetic run starts upper-case.
Title(s) ==
    [i \in 1..Len(s) |->
        IF s[i] \in DOMAIN TitleSpecial THEN TitleSpecial[s[i]]
        ELSE UpperFirst(s[i])]

\* The tokens of the alphabet the regex [A-Z][a-z]+ matches whole.
CapitalizedWords ==
    {"Action", "Alice", "Bob", "Carol", "Dave", "Eve", "Final", "Frank",
     "Friday", "Grace", "Great", "Heidi", "Ivan", "Judy", "Mallory", "March",
     "Monday", "Next", "Niaj", "Sarah", "Thanks", "We"}

\* <<token, keyword>>: the lower-case token holds the keyword as a substring.
SubstringFacts ==
    {<<"asap", "asap">>, <<"delay", "delay">>, <<"discuss", "discuss">>,
     <<"great", "great">>, <<"hire", "hire">>, <<"must", "must">>,
     <<"problem", "problem">>, <<"review", "review">>, <<"risk", "risk">>,
     <<"should", "should">>, <<"timeline", "timeline">>,
     <<"updates", "update">>, <<"urgent", "urgent">>}

\* Python's `keyword in text` for a lower-case text; a keyword is a sequence
\* of tokens (one word, or the words and spaces of a phrase).
ContainsKeyword(text, keyword) ==
    IF Len(keyword) = 1
    THEN \E i \in 1..Len(text) : <<text[i], keyword[1]>> \in SubstringFacts
    ELSE \E i \in 1..(Len(text) - Len(keyword) + 1) :
            SubSeq(text, i, i + Len(keyword) - 1) = keyword

AnyKeyword(text, keywords) == \E k \in keywords : ContainsKeyword(text, k)

----------------------------------------------------------------------------
(* TextProcessor. *)

MIN_SENTENCE_LENGTH == 10
MAX_NAMES == 3

\* re.sub(r'\s+', ' ', text): the first character of every whitespace run
\* becomes a space, the others go.
CollapseWhitespace(text) ==
    LET mark == [i \in 1..Len(text) |->
                    IF text[i] \notin Whitespace THEN text[i]
                    ELSE IF i > 1 /\ text[i - 1] \in Whitespace THEN ""
                    ELSE " "]
    IN  SelectSeq(mark, LAMBDA tok : tok # "")

\* The last position of the run of non-terminators that starts at i.
PieceEnd(text, i) ==
    CHOOSE e \in i..Len(text) :
        /\ e = Len(text) \/ text[e + 1] \in Terminators
        /\ \A j \in (i + 1)..e : text[j] \notin Terminators

\* re.split(r'[.!?]+', text): the pieces between the terminator runs, with
\* an empty piece before a leading run and after a trailing one.
SplitSentences(text) ==
    LET starts == SelectSeq([i \in 1..Len(text) |-> i],
                    LAMBDA i : /\ text[i] \notin Terminators
                               /\ (i = 1 \/ text[i - 1] \in Terminators))
        leading == IF text = <<>> \/ Head(text) \in Terminators
                   THEN << <<>> >> ELSE <<>>
        trailing == IF text # <<>> /\ text[Len(text)] \in Terminators
                    THEN << <<>> >> ELSE <<>>
    IN  leading
        \o [k \in 1..Len(starts) |->
                SubSeq(text, starts[k], PieceEnd(text, starts[k]))]
        \o trailing

\* A variant of LongEnough that keeps a piece of exactly the minimum length.
LongEnoughInclusive(s) == StrLen(Strip(s)) >= MIN_SENTENCE_LENGTH

\* The filter of preprocess_text: len(s.strip()) > MIN_SENTENCE_LENGTH.
LongEnough(s) == StrLen(Strip(s)) > MIN_SENTENCE_LENGTH

\* A variant of preprocess_text that returns the kept pieces untrimmed.
preprocess_text_untrimmed(text) ==
    SelectSeq(SplitSentences(CollapseWhitespace(text)), LongEnough)

preprocess_text(text) ==
    LET pieces == SelectSeq(SplitSentences(CollapseWhitespace(text)),
                            LongEnough)
    IN  [i \in 1..Len(pieces) |-> Strip(pieces[i])]

\* The process's string hash: Python randomises str hashes once per process,
\* and the iteration order of a set of str follows them.
HashSeeds == {1, 2}
NameIndex ==
    <<"Action", "Alice", "Bob", "Carol", "Dave", "Eve", "Final", "Frank",
      "Friday", "Grace", "Great", "Heidi", "Ivan", "Judy", "Mallory", "March",
      "Monday", "Next", "Niaj", "Sarah", "Thanks", "We">>
StrHash(seed, name) ==
    LET i == CHOOSE j \in 1..Len(NameIndex) : NameIndex[j] = name
    IN  (i * (2 * seed + 3)) % (Len(NameIndex) + 1)

\* list(a_set): the elements in the order of their hashes.
RECURSIVE SetToList(_, _)
SetToList(seed, S) ==
    IF S = {} THEN <<>>
    ELSE LET first == CHOOSE x \in S :
                        \A y \in S : StrHash(seed, x) <= StrHash(seed, y)
         IN  <<first>> \o SetToList(seed, S \ {first})

\* a_list[:n]
Take(s, n) == SubSeq(s, 1, IF Len(s) < n THEN Len(s) ELSE n)

\* re.findall(r'\b[A-Z][a-z]+\b', text)
FindNames(text) == SelectSeq(text, LAMBDA tok : tok \in CapitalizedWords)

Range(s) == {s[i] : i \in 1..Len(s)}

extract_names(seed, text) == Take(SetToList(seed, Range(FindNames(text))), MAX_NAMES)

\* The tokens of the alphabet that \w+day matches at their start, with the
\* text matched; those that \d+ matches at their start, with the text matched.
DayTable == ("friday" :> "friday") @@ ("monday" :> "monday")
DigitTable == ("15th" :> "15")

NOT_SPECIFIED == <<"Not", " ", "specified">>

DEADLINE_PATTERNS == <<"by", "due", "deadline", "before">>

\* One of the four compiled patterns, '<word> (\w+day|\w+\s+\d+)', tried at
\* position i of a lower-case sentence: the text of group 1, or <<>>.
DeadlineGroupAt(text, i, word) ==
    IF i + 2 > Len(text) \/ text[i] # word \/ text[i + 1] \notin Whitespace
    THEN <<>>
    ELSE IF text[i + 2] \in DOMAIN DayTable
    THEN <<DayTable[text[i + 2]]>>
    ELSE IF /\ i + 4 <= Len(text)
            /\ IsWord(text[i + 2])
            /\ text[i + 3] \in Whitespace
            /\ text[i + 4] \in DOMAIN DigitTable
    THEN <<text[i + 2], text[i + 3], DigitTable[text[i + 4]]>>
    ELSE <<>>

Min(S) == CHOOSE x \in S : \A y \in S : x <= y
Max(S) == CHOOSE x \in S : \A y \in S : x >= y

\* pattern.search(sentence_lower): group 1 of the leftmost match, or <<>>.
DeadlineSearch(text, word) ==
    LET hits == {i \in 1..Len(text) : DeadlineGroupAt(text, i, word) # <<>>}
    IN  IF hits = {} THEN <<>> ELSE DeadlineGroupAt(text, Min(hits), word)

\* A variant of DeadlineFrom that takes the keyword found leftmost in the
\* sentence, whatever its place in the pattern list.
DeadlineFromLeftmost(text, k) ==
    LET found == {j \in k..Len(DEADLINE_PATTERNS) :
                     DeadlineSearch(text, DEADLINE_PATTERNS[j]) # <<>>}
        at(j) == Min({i \in 1..Len(text) :
                        DeadlineGroupAt(text, i, DEADLINE_PATTERNS[j]) # <<>>})
    IN  IF found = {} THEN NOT_SPECIFIED
        ELSE LET first == CHOOSE j \in found :
                              \A other \in found : at(j) <= at(other)
             IN  Title(DeadlineSearch(text, DEADLINE_PATTERNS[first]))

RECURSIVE DeadlineFrom(_, _)
DeadlineFrom(text, k) ==
    IF k > Len(DEADLINE_PATTERNS) THEN NOT_SPECIFIED
    ELSE IF DeadlineSearch(text, DEADLINE_PATTERNS[k]) # <<>>
         THEN Title(DeadlineSearch(text, DEADLINE_PATTERNS[k]))
         ELSE DeadlineFrom(text, k + 1)

extract_deadline(sentence) == DeadlineFrom(Lower(sentence), 1)

----------------------------------------------------------------------------
(* Regular expressions of PatternConfig, over tokens.  A pattern is a      *)
(* sequence of elements: a literal with ordered alternatives, (\w+), or    *)
(* (.+); g says whether the element is a capture group.                    *)

Lit(s) == [k |-> "lit", alts |-> <<s>>, g |-> FALSE]
Alt(alts) == [k |-> "lit", alts |-> alts, g |-> TRUE]
WordGroup == [k |-> "word", alts |-> <<>>, g |-> TRUE]
RestGroup == [k |-> "any", alts |-> <<>>, g |-> TRUE]

NoMatch == [ok |-> FALSE, groups |-> <<>>]
Matched(e, text, r) ==
    [ok |-> TRUE, groups |-> (IF e.g THEN <<text>> ELSE <<>>) \o r.groups]

RECURSIVE MatchFrom(_, _, _, _)
RECURSIVE TryAlts(_, _, _, _, _)
RECURSIVE TryRest(_, _, _, _)

\* Elements k.. of pat matched at position pos of text, as a backtracking
\* matcher does: alternatives in order, (.+) longest first.
MatchFrom(pat, k, text, pos) ==
    IF k > Len(pat) THEN [ok |-> TRUE, groups |-> <<>>]
    ELSE CASE pat[k].k = "word" ->
                IF pos <= Len(text) /\ IsWord(text[pos])
                THEN LET r == MatchFrom(pat, k + 1, text, pos + 1)
                     IN  IF r.ok THEN Matched(pat[k], <<text[pos]>>, r)
                         ELSE NoMatch
                ELSE NoMatch
           [] pat[k].k = "lit" -> TryAlts(pat, k, text, pos, 1)
           [] OTHER -> TryRest(pat, k, text, pos)

TryAlts(pat, k, text, pos, a) ==
    IF a > Len(pat[k].alts) THEN NoMatch
    ELSE LET lit == pat[k].alts[a]
             fits == /\ pos + Len(lit) - 1 <= Len(text)
                     /\ SubSeq(text, pos, pos + Len(lit) - 1) = lit
             r == MatchFrom(pat, k + 1, text, pos + Len(lit))
         IN  IF fits /\ r.ok THEN Matched(pat[k], lit, r)
             ELSE TryAlts(pat, k, text, pos, a + 1)

TryRest(pat, k, text, pos) ==
    LET lengths == {n \in 1..(Len(text) - pos + 1) :
                        MatchFrom(pat, k + 1, text, pos + n).ok}
    IN  IF lengths = {} THEN NoMatch
        ELSE Matched(pat[k], SubSeq(text, pos, pos + Max(lengths) - 1),
                     MatchFrom(pat, k + 1, text, pos + Max(lengths)))

\* re.search(pattern, text): the leftmost match.
re_search(pat, text) ==
    LET starts == {p \in 1..Len(text) : MatchFrom(pat, 1, text, p).ok}
    IN  IF starts = {} THEN NoMatch ELSE MatchFrom(pat, 1, text, Min(starts))

----------------------------------------------------------------------------
(* PatternConfig. *)

W1(w) == <<w>>
SP == " "

DECISION_PATTERNS ==
    << [re |-> <<Lit(<<"we", SP>>),
                 Alt(<<W1("decided"), W1("agreed"), W1("concluded"),
                       W1("determined")>>),
                 Lit(<<SP>>), Alt(<<W1("to"), W1("that")>>), Lit(<<SP>>),
                 RestGroup>>,
        confidence |-> 90],
       [re |-> <<Alt(<<W1("decision"), W1("conclusion")>>), Lit(<<":", SP>>),
                 RestGroup>>,
        confidence |-> 80],
       [re |-> <<Lit(<<"it", SP, "was", SP>>),
                 Alt(<<W1("decided"), W1("agreed")>>), Lit(<<SP>>),
                 RestGroup>>,
        confidence |-> 85],
       [re |-> <<Lit(<<"we", SP, "will", SP>>),
                 Alt(<<<<"go", SP, "with">>, W1("choose"), W1("select"),
                       W1("implement")>>),
                 Lit(<<SP>>), RestGroup>>,
        confidence |-> 80],
       [re |-> <<Lit(<<"final", SP, "decision", SP>>), RestGroup>>,
        confidence |-> 95],
       [re |-> <<Lit(<<"approved", SP>>), RestGroup>>,
        confidence |-> 70] >>

ACTION_PATTERNS ==
    << [re |-> <<WordGroup, Lit(<<SP>>),
                 Alt(<<W1("will"), W1("should"), <<"needs", SP, "to">>,
                       W1("must")>>),
                 Lit(<<SP>>), RestGroup>>,
        confidence |-> 80],
       [re |-> <<Lit(<<"action", SP, "item", ":", SP>>), WordGroup,
                 Lit(<<SP, "-", SP>>), RestGroup>>,
        confidence |-> 90],
       [re |-> <<WordGroup,
                 Lit(<<SP, "is", SP, "responsible", SP, "for", SP>>),
                 RestGroup>>,
        confidence |-> 85],
       [re |-> <<WordGroup, Lit(<<SP, "to", SP>>), RestGroup,
                 Lit(<<SP, "by", SP>>), RestGroup>>,
        confidence |-> 90],
       [re |-> <<Lit(<<"assign", SP>>), WordGroup, Lit(<<SP, "to", SP>>),
                 RestGroup>>,
        confidence |-> 70] >>

Words(ws) == {W1(w) : w \in ws}

\* Python dicts keep insertion order: the buckets are sequences.
PRIORITY_KEYWORDS ==
    << [name |-> "critical",
        keywords |-> Words({"urgent", "asap", "critical", "emergency",
                            "immediately"})],
       [name |-> "high",
        keywords |-> Words({"important", "priority", "must", "required",
                            "essential"})],
       [name |-> "medium",
        keywords |-> Words({"should", "recommended", "preferred",
                            "consider"})],
       [name |-> "low",
        keywords |-> Words({"could", "maybe", "optional"})
                        \cup {<<"nice", SP, "to", SP, "have">>}] >>

SENTIMENT_INDICATORS ==
    << [name |-> "positive",
        keywords |-> Words({"great", "excellent", "perfect", "amazing",
                            "successful"})],
       [name |-> "negative",
        keywords |-> Words({"problem", "issue", "concern", "delay",
                            "blocker"})],
       [name |-> "neutral",
        keywords |-> Words({"update", "status", "review", "discuss",
                            "consider"})] >>

IMPACT_KEYWORDS ==
    [high |-> Words({"budget", "hire", "fire", "strategy", "launch",
                     "cancel"}),
     medium |-> Words({"feature", "timeline", "resource", "process"})]

RISK_KEYWORDS ==
    Words({"delay", "blocker", "issue", "problem", "concern", "risk"})

----------------------------------------------------------------------------
(* EnterpriseAnalyzer: the extractors. *)

MAX_DECISIONS == 5
MAX_ACTIONS == 8
MAX_RISKS == 3
MAX_ATTENDEES == 10
MIN_CONTENT_LENGTH == 15

\* A variant of SortedDescending that reverses the items of equal key.
SortedTiesReversed(items, keys) ==
    LET Before(i) == Cardinality({j \in 1..Len(items) :
                        keys[j] > keys[i] \/ (keys[j] = keys[i] /\ j > i)})
    IN  [p \in 1..Len(items) |->
            items[CHOOSE i \in 1..Len(items) : Before(i) = p - 1]]

\* sorted(items, key=..., reverse=True): stable, descending; keys[i] is the
\* key of items[i].
SortedDescending(items, keys) ==
    LET Before(i) == Cardinality({j \in 1..Len(items) :
                        keys[j] > keys[i] \/ (keys[j] = keys[i] /\ j < i)})
    IN  [p \in 1..Len(items) |->
            items[CHOOSE i \in 1..Len(items) : Before(i) = p - 1]]

RECURSIVE Flatten(_)
Flatten(lists) ==
    IF lists = <<>> THEN <<>> ELSE Head(lists) \o Flatten(Tail(lists))

_assess_impact(sentence) ==
    IF AnyKeyword(Lower(sentence), IMPACT_KEYWORDS.high) THEN "High"
    ELSE IF AnyKeyword(Lower(sentence), IMPACT_KEYWORDS.medium) THEN "Medium"
    ELSE "Low"

\* A variant of PriorityFrom in which the last matching bucket wins.
PriorityFromLastMatch(text, k) ==
    LET hits == {j \in k..Len(PRIORITY_KEYWORDS) :
                    AnyKeyword(text, PRIORITY_KEYWORDS[j].keywords)}
    IN  IF hits = {} THEN "medium"
        ELSE PRIORITY_KEYWORDS[CHOOSE j \in hits :
                                  \A h \in hits : h <= j].name

\* for priority, keywords in PRIORITY_KEYWORDS.items(), from bucket k on
RECURSIVE PriorityFrom(_, _)
PriorityFrom(text, k) ==
    IF k > Len(PRIORITY_KEYWORDS) THEN "medium"
    ELSE IF AnyKeyword(text, PRIORITY_KEYWORDS[k].keywords)
         THEN PRIORITY_KEYWORDS[k].name
         ELSE PriorityFrom(text, k + 1)

_assess_priority(sentence) == PriorityFrom(Lower(sentence), 1)

Last(s) == s[Len(s)]

\* A variant of DecisionOf that keeps a content of any length.
DecisionOfAnyLength(seed, sentence, k) ==
    LET match == re_search(DECISION_PATTERNS[k].re, Lower(sentence))
        content == Strip(Last(match.groups))
    IN  IF match.ok
        THEN << [content |-> Capitalize(content),
                 impact_level |-> _assess_impact(sentence),
                 stakeholders |-> extract_names(seed, sentence),
                 confidence |-> DECISION_PATTERNS[k].confidence] >>
        ELSE <<>>

\* The body of _extract_decisions' inner loop: what one (sentence, pattern)
\* pair appends to decisions.
DecisionOf(seed, sentence, k) ==
    LET match == re_search(DECISION_PATTERNS[k].re, Lower(sentence))
        content == Strip(Last(match.groups))
    IN  IF match.ok /\ StrLen(content) > MIN_CONTENT_LENGTH
        THEN << [content |-> Capitalize(content),
                 impact_level |-> _assess_impact(sentence),
                 stakeholders |-> extract_names(seed, sentence),
                 confidence |-> DECISION_PATTERNS[k].confidence] >>
        ELSE <<>>

\* The decisions list before it is sorted and cut.
CollectedDecisions(seed, sents) ==
    Flatten([i \in 1..Len(sents) |->
        Flatten([k \in 1..Len(DECISION_PATTERNS) |->
            DecisionOf(seed, sents[i], k)])])

\* A variant of DecisionsCut that returns the whole sorted list.
DecisionsUncut(sorted) == sorted

DecisionsCut(sorted) == Take(sorted, MAX_DECISIONS)

_extract_decisions(seed, sents) ==
    LET found == CollectedDecisions(seed, sents)
    IN  DecisionsCut(SortedDescending(found,
            [i \in 1..Len(found) |-> found[i].confidence]))

\* A variant of ActionOf that keeps group 1 as matched, in lower case.
ActionOfRawAssignee(sentence, k) ==
    LET match == re_search(ACTION_PATTERNS[k].re, Lower(sentence))
    IN  IF match.ok
        THEN << [assignee |-> match.groups[1],
                 task |-> Strip(match.groups[2]),
                 deadline |-> extract_deadline(sentence),
                 priority |-> _assess_priority(sentence),
                 confidence |-> ACTION_PATTERNS[k].confidence] >>
        ELSE <<>>

\* The body of _extract_actions' inner loop: what one (sentence, pattern)
\* pair appends to actions.
ActionOf(sentence, k) ==
    LET match == re_search(ACTION_PATTERNS[k].re, Lower(sentence))
    IN  IF match.ok
        THEN << [assignee |-> Capitalize(match.groups[1]),
                 task |-> Strip(match.groups[2]),
                 deadline |-> extract_deadline(sentence),
                 priority |-> _assess_priority(sentence),
                 confidence |-> ACTION_PATTERNS[k].confidence] >>
        ELSE <<>>

CollectedActions(sents) ==
    Flatten([i \in 1..Len(sents) |->
        Flatten([k \in 1..Len(ACTION_PATTERNS) |-> ActionOf(sents[i], k)])])

\* A variant of ActionKey that leaves the critical flag out.
ActionKeyByConfidence(a) == a.confidence

\* The sort key (x.priority == 'critical', x.confidence) as one integer.
ActionKey(a) == (IF a.priority = "critical" THEN 1000 ELSE 0) + a.confidence

ActionsCut(sorted) == Take(sorted, MAX_ACTIONS)

_extract_actions(sents) ==
    LET found == CollectedActions(sents)
    IN  ActionsCut(SortedDescending(found,
            [i \in 1..Len(found) |-> ActionKey(found[i])]))

NEXT_MEETING_PATTERN == <<Lit(<<"next", SP, "meeting", SP>>), RestGroup>>

\* A variant of MetadataLoop that keeps the first next_meeting it finds.
RECURSIVE MetadataLoopFirstMatch(_, _, _, _, _)
MetadataLoopFirstMatch(seed, sents, i, nm, att) ==
    IF i > Len(sents) THEN [next_meeting |-> nm, attendees |-> att]
    ELSE LET match == re_search(NEXT_MEETING_PATTERN, Lower(sents[i]))
         IN  MetadataLoopFirstMatch(seed, sents, i + 1,
                IF match.ok /\ nm = NOT_SPECIFIED
                THEN Title(Strip(match.groups[1])) ELSE nm,
                att \cup Range(extract_names(seed, sents[i])))

\* _extract_metadata's loop from sentence i on; nm and att are next_meeting
\* and attendees so far.
RECURSIVE MetadataLoop(_, _, _, _, _)
MetadataLoop(seed, sents, i, nm, att) ==
    IF i > Len(sents) THEN [next_meeting |-> nm, attendees |-> att]
    ELSE LET match == re_search(NEXT_MEETING_PATTERN, Lower(sents[i]))
         IN  MetadataLoop(seed, sents, i + 1,
                IF match.ok THEN Title(Strip(match.groups[1])) ELSE nm,
                att \cup Range(extract_names(seed, sents[i])))

AttendeesCut(names) == Take(names, MAX_ATTENDEES)

_extract_metadata(seed, sents) ==
    LET end == MetadataLoop(seed, sents, 1, NOT_SPECIFIED, {})
    IN  [next_meeting |-> end.next_meeting,
         attendees |-> AttendeesCut(SetToList(seed, end.attendees)),
         meeting_length |-> Len(sents)]

Buckets == {"positive", "negative", "neutral"}

BucketKeywords(name) ==
    LET k == CHOOSE j \in 1..Len(SENTIMENT_INDICATORS) :
                SENTIMENT_INDICATORS[j].name = name
    IN  SENTIMENT_INDICATORS[k].keywords

\* sentiment_scores = {'positive': 0, 'negative': 0, 'neutral': 0}
ZeroScores == [b \in Buckets |-> 0]

\* One pass of _analyze_sentiment's outer loop.
ScoreSentence(scores, sentence) ==
    [b \in Buckets |->
        IF AnyKeyword(Lower(sentence), BucketKeywords(b))
        THEN scores[b] + 1 ELSE scores[b]]

RECURSIVE ScoreAll(_, _)
ScoreAll(scores, sents) ==
    IF sents = <<>> THEN scores
    ELSE ScoreAll(ScoreSentence(scores, Head(sents)), Tail(sents))

\* A variant of RoundHalfEven that drops the digits after the kept one.
RoundDown(num, den) == num \div den

\* round(num / den * scale) as Python rounds a float that is exactly
\* representable: to nearest, a tie to the even neighbour.
RoundHalfEven(num, den) ==
    LET q == num \div den
        r == num % den
    IN  IF 2 * r < den THEN q
        ELSE IF 2 * r > den THEN q + 1
        ELSE IF q % 2 = 0 THEN q ELSE q + 1

\* total = sum(sentiment_scores.values()) or 1
SentimentTotal(scores) ==
    LET sum == scores["positive"] + scores["negative"] + scores["neutral"]
    IN  IF sum = 0 THEN 1 ELSE sum

\* {k: round(v/total * 100, 1) ...}, in tenths of a percent.
Percentages(scores) ==
    [b \in Buckets |-> RoundHalfEven(scores[b] * 1000, SentimentTotal(scores))]

_analyze_sentiment(sents) == Percentages(ScoreAll(ZeroScores, sents))

IsRisk(sentence) == AnyKeyword(Lower(sentence), RISK_KEYWORDS)

RisksCut(found) == Take(found, MAX_RISKS)

_assess_risks(sents) ==
    LET found == SelectSeq(sents, IsRisk)
    IN  RisksCut([i \in 1..Len(found) |-> Strip(found[i])])

RECURSIVE SumConfidence(_)
SumConfidence(ds) ==
    IF ds = <<>> THEN 0 ELSE Head(ds).confidence + SumConfidence(Tail(ds))

\* The confidence lists (at most MAX_DECISIONS long, in sorted order) whose
\* mean lies halfway between two hundredths and that IEEE-754 doubles
\* round(sum/len, 2) up; the other halfway lists round down.
TiesRoundedUp ==
    {<<95, 90>>, <<95, 80>>, <<90, 85>>, <<95, 95, 90, 70>>,
     <<95, 95, 80, 80>>, <<95, 90, 85, 80>>, <<95, 85, 85, 85>>,
     <<90, 90, 90, 80>>, <<90, 90, 85, 85>>, <<90, 80, 70, 70>>,
     <<80, 80, 80, 70>>, <<80, 70, 70, 70>>}

\* A variant of AverageConfidence that rounds every mean up.
AverageConfidenceCeiling(ds) ==
    (SumConfidence(ds) + Len(ds) - 1) \div Len(ds)

\* round(sum(d.confidence for d in decisions) / len(decisions), 2)
AverageConfidence(ds) ==
    LET sum == SumConfidence(ds)
        q == sum \div Len(ds)
        r == sum % Len(ds)
    IN  IF 2 * r < Len(ds) THEN q
        ELSE IF 2 * r > Len(ds) THEN q + 1
        ELSE IF [i \in 1..Len(ds) |-> ds[i].confidence] \in TiesRoundedUp
             THEN q + 1 ELSE q

_generate_stats(ds, as) ==
    [total_decisions |-> Len(ds),
     high_impact_decisions |->
        Len(SelectSeq(ds, LAMBDA d : d.impact_level = "High")),
     total_actions |-> Len(as),
     critical_actions |->
        Len(SelectSeq(as, LAMBDA a : a.priority = "critical")),
     avg_confidence |-> IF ds # <<>> THEN AverageConfidence(ds) ELSE 0]

MeetingAnalysis(ds, as, md, sn, rs, st) ==
    [decisions |-> ds, action_items |-> as, metadata |-> md,
     sentiment |-> sn, risks |-> rs, summary_stats |-> st]

\* The whole of analyze_meeting on a str, as one function.
analyze_text(seed, text) ==
    LET sents == preprocess_text(text)
        ds == _extract_decisions(seed, sents)
        as == _extract_actions(sents)
    IN  MeetingAnalysis(ds, as, _extract_metadata(seed, sents),
                        _analyze_sentiment(sents), _assess_risks(sents),
                        _generate_stats(ds, as))

----------------------------------------------------------------------------
(* Python values handled by LLMAnalyzer.  A str inside a value is a TLA+    *)
(* string; a float is an integer number of hundredths; a dict is the       *)
(* sequence of its items in insertion order.                               *)

PyStr(s) == [ty |-> "str", v |-> s]
PyInt(n) == [ty |-> "int", v |-> n]
PyFloat(hundredths) == [ty |-> "float", v |-> hundredths]
PyBool(b) == [ty |-> "bool", v |-> b]
PyNone == [ty |-> "NoneType", v |-> 0]
PyList(items) == [ty |-> "list", v |-> items]
PyDict(items) == [ty |-> "dict", v |-> items]
Item(k, val) == [key |-> k, val |-> val]

Keys(d) == {d.v[i].key : i \in 1..Len(d.v)}
HasKey(d, k) == k \in Keys(d)
GetItem(d, k) == d.v[CHOOSE i \in 1..Len(d.v) : d.v[i].key = k].val
\* d.get(k, default)
Get(d, k, default) == IF HasKey(d, k) THEN GetItem(d, k) ELSE default
\* d[k] = val: a key already there keeps its place.
SetItem(items, k, val) ==
    IF \E i \in 1..Len(items) : items[i].key = k
    THEN [i \in 1..Len(items) |->
            IF items[i].key = k THEN Item(k, val) ELSE items[i]]
    ELSE Append(items, Item(k, val))

\* s[:n] on a str
FirstChars(s, n) == SubSeq(s, 1, IF Len(s) < n THEN Len(s) ELSE n)

\* repr() of a float given in hundredths: 95 is "0.95", 100 is "1.0".
FloatRepr(h) ==
    ToString(h \div 100) \o "."
    \o (IF h % 10 = 0 THEN ToString((h % 100) \div 10)
        ELSE IF h % 100 < 10 THEN "0" \o ToString(h % 100)
        ELSE ToString(h % 100))

RECURSIVE PyToStr(_)
RECURSIVE PyRepr(_)
RECURSIVE JoinReprs(_)
RECURSIVE JoinItems(_)

\* str(value)
PyToStr(value) ==
    CASE value.ty = "str" -> value.v
      [] value.ty = "int" -> ToString(value.v)
      [] value.ty = "float" -> FloatRepr(value.v)
      [] value.ty = "bool" -> IF value.v THEN "True" ELSE "False"
      [] value.ty = "NoneType" -> "None"
      [] value.ty = "list" -> "[" \o JoinReprs(value.v) \o "]"
      [] OTHER -> "{" \o JoinItems(value.v) \o "}"

PyRepr(value) ==
    IF value.ty = "str" THEN "'" \o value.v \o "'" ELSE PyToStr(value)

JoinReprs(values) ==
    IF values = <<>> THEN ""
    ELSE IF Len(values) = 1 THEN PyRepr(values[1])
    ELSE PyRepr(values[1]) \o ", " \o JoinReprs(Tail(values))

JoinItems(items) ==
    IF items = <<>> THEN ""
    ELSE LET first == "'" \o items[1].key \o "': " \o PyRepr(items[1].val)
         IN  IF Len(items) = 1 THEN first
             ELSE first \o ", " \o JoinItems(Tail(items))

UpperCaseLetters ==
    ("A" :> "a") @@ ("B" :> "b") @@ ("C" :> "c") @@ ("D" :> "d") @@
    ("E" :> "e") @@ ("F" :> "f") @@ ("G" :> "g") @@ ("H" :> "h") @@
    ("I" :> "i") @@ ("J" :> "j") @@ ("K" :> "k") @@ ("L" :> "l") @@
    ("M" :> "m") @@ ("N" :> "n") @@ ("O" :> "o") @@ ("P" :> "p") @@
    ("Q" :> "q") @@ ("R" :> "r") @@ ("S" :> "s") @@ ("T" :> "t") @@
    ("U" :> "u") @@ ("V" :> "v") @@ ("W" :> "w") @@ ("X" :> "x") @@
    ("Y" :> "y") @@ ("Z" :> "z")

\* str.lower() on a str of ASCII characters
RECURSIVE LowerChars(_)
LowerChars(s) ==
    IF s = "" THEN ""
    ELSE (IF Head(s) \in DOMAIN UpperCaseLetters
          THEN UpperCaseLetters[Head(s)] ELSE Head(s))
         \o LowerChars(SubSeq(s, 2, Len(s)))

\* What `for x in value` yields, or the TypeError it raises.
Iterate(value) ==
    CASE value.ty = "list" -> [ok |-> TRUE, items |-> value.v]
      [] value.ty = "str" ->
            [ok |-> TRUE,
             items |-> [i \in 1..Len(value.v) |->
                            PyStr(SubSeq(value.v, i, i))]]
      [] value.ty = "dict" ->
            [ok |-> TRUE,
             items |-> [i \in 1..Len(value.v) |-> PyStr(value.v[i].key)]]
      [] OTHER ->
            [ok |-> FALSE,
             msg |-> "'" \o value.ty \o "' object is not iterable"]

\* isinstance(value, (int, float)); bool is a subclass of int.
IsNumber(value) == value.ty \in {"int", "float", "bool"}

\* float(value) of such a value, in hundredths
ToFloat(value) ==
    CASE value.ty = "int" -> 100 * value.v
      [] value.ty = "bool" -> IF value.v THEN 100 ELSE 0
      [] OTHER -> value.v

----------------------------------------------------------------------------
(* json.loads.  The text of a response is a sequence of tokens: a JSON     *)
(* punctuator, a whole string literal with its quotes, a number, a word,   *)
(* one whitespace character, or a markdown fence.                           *)

\* The markdown fence of three backquotes; a TLA+ string cannot hold a
\* backquote, so the token is written with three apostrophes.
FENCE == "'''"

NumberTable ==
    ("0" :> PyInt(0)) @@ ("1" :> PyInt(1)) @@ ("2" :> PyInt(2)) @@
    ("3" :> PyInt(3)) @@ ("5" :> PyInt(5)) @@ ("20" :> PyInt(20)) @@
    ("30" :> PyInt(30)) @@ ("50" :> PyInt(50)) @@ ("0.5" :> PyFloat(50)) @@
    ("0.8" :> PyFloat(80)) @@ ("0.9" :> PyFloat(90)) @@
    ("0.95" :> PyFloat(95)) @@ ("33.3" :> PyFloat(3330))

IsStringToken(tok) ==
    /\ Len(tok) >= 2
    /\ Head(tok) = "\""
    /\ SubSeq(tok, Len(tok), Len(tok)) = "\""

\* The first position from i on that holds no whitespace (Len + 1 if none).
SkipWhitespace(toks, i) ==
    CHOOSE j \in i..(Len(toks) + 1) :
        /\ j = Len(toks) + 1 \/ toks[j] \notin Whitespace
        /\ \A k \in i..(j - 1) : toks[k] \in Whitespace

Parsed(value, next) == [ok |-> TRUE, val |-> value, next |-> next]
\* JSONDecodeError(msg, doc, pos)
DecodeError(msg, at) == [ok |-> FALSE, msg |-> msg, at |-> at]

RECURSIVE ParseValue(_, _)
RECURSIVE ParseMembers(_, _, _)
RECURSIVE ParseElements(_, _, _)

\* scan_once at token i
ParseValue(toks, i) ==
    IF i > Len(toks) THEN DecodeError("Expecting value", i)
    ELSE CASE toks[i] = "{" ->
                LET j == SkipWhitespace(toks, i + 1)
                IN  IF j <= Len(toks) /\ toks[j] = "}"
                    THEN Parsed(PyDict(<<>>), j + 1)
                    ELSE ParseMembers(toks, j, <<>>)
           [] toks[i] = "[" ->
                LET j == SkipWhitespace(toks, i + 1)
                IN  IF j <= Len(toks) /\ toks[j] = "]"
                    THEN Parsed(PyList(<<>>), j + 1)
                    ELSE ParseElements(toks, j, <<>>)
           [] IsStringToken(toks[i]) ->
                Parsed(PyStr(SubSeq(toks[i], 2, Len(toks[i]) - 1)), i + 1)
           [] toks[i] \in DOMAIN NumberTable ->
                Parsed(NumberTable[toks[i]], i + 1)
           [] toks[i] = "true" -> Parsed(PyBool(TRUE), i + 1)
           [] toks[i] = "false" -> Parsed(PyBool(FALSE), i + 1)
           [] toks[i] = "null" -> Parsed(PyNone, i + 1)
           [] OTHER -> DecodeError("Expecting value", i)

\* JSONObject from the position of a key on
ParseMembers(toks, i, items) ==
    IF i > Len(toks) \/ ~IsStringToken(toks[i])
    THEN DecodeError("Expecting property name enclosed in double quotes", i)
    ELSE LET colon == SkipWhitespace(toks, i + 1)
         IN  IF colon > Len(toks) \/ toks[colon] # ":"
             THEN DecodeError("Expecting ':' delimiter", colon)
             ELSE LET r == ParseValue(toks, SkipWhitespace(toks, colon + 1))
                  IN  IF ~r.ok THEN r
                      ELSE LET e == SkipWhitespace(toks, r.next)
                               more == SetItem(items,
                                          SubSeq(toks[i], 2, Len(toks[i]) - 1),
                                          r.val)
                           IN  IF e <= Len(toks) /\ toks[e] = "}"
                               THEN Parsed(PyDict(more), e + 1)
                               ELSE IF e > Len(toks) \/ toks[e] # ","
                               THEN DecodeError("Expecting ',' delimiter", e)
                               ELSE ParseMembers(toks,
                                        SkipWhitespace(toks, e + 1), more)

\* JSONArray from the position of an element on
ParseElements(toks, i, values) ==
    LET r == ParseValue(toks, i)
    IN  IF ~r.ok THEN r
        ELSE LET e == SkipWhitespace(toks, r.next)
             IN  IF e <= Len(toks) /\ toks[e] = "]"
                 THEN Parsed(PyList(Append(values, r.val)), e + 1)
                 ELSE IF e > Len(toks) \/ toks[e] # ","
                 THEN DecodeError("Expecting ',' delimiter", e)
                 ELSE ParseElements(toks, SkipWhitespace(toks, e + 1),
                                    Append(values, r.val))

\* json.loads(text)
json_loads(toks) ==
    LET r == ParseValue(toks, SkipWhitespace(toks, 1))
    IN  IF ~r.ok THEN r
        ELSE IF SkipWhitespace(toks, r.next) <= Len(toks)
        THEN DecodeError("Extra data", SkipWhitespace(toks, r.next))
        ELSE r

\* str(e) of a JSONDecodeError: the message and the place in the document.
DecodeErrorText(toks, err) ==
    LET before == SubSeq(toks, 1, err.at - 1)
        newlines == {k \in 1..Len(before) : before[k] = "\n"}
        lineStart == IF newlines = {} THEN 0 ELSE Max(newlines)
    IN  err.msg \o ": line " \o ToString(Cardinality(newlines) + 1)
        \o " column "
        \o ToString(StrLen(SubSeq(before, lineStart + 1, Len(before))) + 1)
        \o " (char " \o ToString(StrLen(before)) \o ")"

\* text.startswith(<fence>json)
StartsWithJsonFence(toks) ==
    Len(toks) >= 2 /\ toks[1] = FENCE /\ toks[2] = "json"

\* text.replace(<fence>json, '').replace(<fence>, '').strip()
RemoveFences(toks) ==
    LET opens == {i \in 1..(Len(toks) - 1) :
                      toks[i] = FENCE /\ toks[i + 1] = "json"}
        marked == [i \in 1..Len(toks) |->
                      IF \/ toks[i] = FENCE
                         \/ i \in opens
                         \/ i - 1 \in opens
                      THEN FENCE ELSE toks[i]]
    IN  Strip(SelectSeq(marked, LAMBDA tok : tok # FENCE))

----------------------------------------------------------------------------
(* LLMAnalyzer: the conversion of a parsed response and the fallback. *)

MAX_TRANSCRIPT_LENGTH == 50000
MAX_ERROR_LENGTH == 200
MAX_TEXT_LENGTH == 500
MAX_FIELD_LENGTH == 100
MAX_LLM_STAKEHOLDERS == 5
MAX_LLM_RISKS == 5
MAX_RISK_LENGTH == 200
DEFAULT_CONFIDENCE == 50

DECISION_KEYS == {"content", "impact_level", "stakeholders", "confidence"}
ACTION_KEYS == {"assignee", "task", "deadline", "priority", "confidence"}

\* float(x['confidence']) if isinstance(x['confidence'], (int, float)) else 0.5
ConfidenceOf(value) ==
    IF IsNumber(value) THEN ToFloat(value) ELSE DEFAULT_CONFIDENCE

IsDecisionDict(d) == d.ty = "dict" /\ DECISION_KEYS \subseteq Keys(d)
IsActionDict(a) == a.ty = "dict" /\ ACTION_KEYS \subseteq Keys(a)

\* Decision(content=..., impact_level=..., stakeholders=..., confidence=...)
LLMDecision(d) ==
    LET names == Iterate(GetItem(d, "stakeholders")).items
    IN  [content |-> FirstChars(PyToStr(GetItem(d, "content")),
                                MAX_TEXT_LENGTH),
         impact_level |-> PyToStr(GetItem(d, "impact_level")),
         stakeholders |->
            Take([i \in 1..Len(names) |-> PyToStr(names[i])],
                 MAX_LLM_STAKEHOLDERS),
         confidence |-> ConfidenceOf(GetItem(d, "confidence"))]

\* ActionItem(assignee=..., task=..., deadline=..., priority=..., ...)
LLMActionItem(a) ==
    [assignee |-> FirstChars(PyToStr(GetItem(a, "assignee")),
                             MAX_FIELD_LENGTH),
     task |-> FirstChars(PyToStr(GetItem(a, "task")), MAX_TEXT_LENGTH),
     deadline |-> FirstChars(PyToStr(GetItem(a, "deadline")),
                             MAX_FIELD_LENGTH),
     priority |-> LowerChars(PyToStr(GetItem(a, "priority"))),
     confidence |-> ConfidenceOf(GetItem(a, "confidence"))]

\* Step 5a: the decisions, or the message of the TypeError that iterating
\* the stakeholders of the first offending decision raises.
ConvertDecisions(res) ==
    IF HasKey(res, "decisions") /\ GetItem(res, "decisions").ty = "list"
    THEN LET found == SelectSeq(GetItem(res, "decisions").v, IsDecisionDict)
             bad == {i \in 1..Len(found) :
                        ~Iterate(GetItem(found[i], "stakeholders")).ok}
         IN  IF bad = {}
             THEN [ok |-> TRUE,
                   items |-> [i \in 1..Len(found) |-> LLMDecision(found[i])]]
             ELSE [ok |-> FALSE,
                   msg |-> Iterate(GetItem(found[Min(bad)],
                                           "stakeholders")).msg]
    ELSE [ok |-> TRUE, items |-> <<>>]

\* Step 5b
ConvertActions(res) ==
    IF HasKey(res, "action_items") /\ GetItem(res, "action_items").ty = "list"
    THEN LET found == SelectSeq(GetItem(res, "action_items").v, IsActionDict)
         IN  [i \in 1..Len(found) |-> LLMActionItem(found[i])]
    ELSE <<>>

\* result.get(key, {}) replaced by `otherwise` when it is no dict
DictOr(res, key, otherwise) ==
    IF Get(res, key, PyDict(<<>>)).ty = "dict"
    THEN Get(res, key, PyDict(<<>>)) ELSE otherwise

THIRDS ==
    PyDict(<<Item("positive", PyFloat(3330)), Item("negative", PyFloat(3330)),
             Item("neutral", PyFloat(3330))>>)

\* risks = [str(r)[:200] for r in risks[:5]]
LLMRisks(res) ==
    LET given == Get(res, "risks", PyList(<<>>))
        kept == Take(IF given.ty = "list" THEN given.v ELSE <<>>,
                     MAX_LLM_RISKS)
    IN  [i \in 1..Len(kept) |-> FirstChars(PyToStr(kept[i]), MAX_RISK_LENGTH)]

\* Step 6
AssembledAnalysis(ds, as, res) ==
    MeetingAnalysis(ds, as, DictOr(res, "metadata", PyDict(<<>>)),
                    DictOr(res, "sentiment", THIRDS), LLMRisks(res),
                    DictOr(res, "summary_stats", PyDict(<<>>)))

FALLBACK_METADATA ==
    PyDict(<<Item("next_meeting", PyStr("Not specified")),
             Item("attendees", PyList(<<>>)),
             Item("meeting_length", PyInt(0))>>)
FALLBACK_SENTIMENT ==
    PyDict(<<Item("positive", PyInt(0)), Item("negative", PyInt(0)),
             Item("neutral", PyInt(100))>>)
FALLBACK_STATS ==
    PyDict(<<Item("total_decisions", PyInt(0)),
             Item("high_impact_decisions", PyInt(0)),
             Item("total_actions", PyInt(0)),
             Item("critical_actions", PyInt(0)),
             Item("avg_confidence", PyInt(0))>>)

\* The result built in the try block; building it raises nothing, so the
\* except block of _create_fallback_analysis is never entered.
_create_fallback_analysis(error_message) ==
    MeetingAnalysis(<<>>, <<>>, FALLBACK_METADATA, FALLBACK_SENTIMENT,
        <<"Analysis Error: " \o FirstChars(error_message, MAX_ERROR_LENGTH)>>,
        FALLBACK_STATS)

\* transcript[:n] on a str given as tokens
FirstCharsOfTokens(text, n) ==
    LET before(i) == StrLen(SubSeq(text, 1, i - 1))
        cut == [i \in 1..Len(text) |->
                  IF before(i) + Len(text[i]) <= n THEN text[i]
                  ELSE IF before(i) < n
                  THEN SubSeq(text[i], 1, n - before(i))
                  ELSE ""]
    IN  SelectSeq(cut, LAMBDA tok : tok # "")

TRUNCATED == <<".", ".", ".", " ", "[", "truncated", "]">>

\* The transcript as the prompt holds it.
PromptTranscript(text) ==
    IF StrLen(text) > MAX_TRANSCRIPT_LENGTH
    THEN FirstCharsOfTokens(text, MAX_TRANSCRIPT_LENGTH) \o TRUNCATED
    ELSE text

----------------------------------------------------------------------------
(* The arguments analyze_meeting is called with. *)

RECURSIVE Join(_)
Join(ix) ==
    IF ix = <<>> THEN <<>> ELSE Paragraphs[Head(ix)] \o Join(Tail(ix))

\* The empty str, a str of whitespace only, and every concatenation of at
\* most n paragraphs.
Texts(n) ==
    {<<" ", "\n">>}
    \cup {Join(ix) : ix \in UNION {[1..m -> 1..Len(Paragraphs)] : m \in 0..n}}

Str(text) == [kind |-> "str", text |-> text]
NonStrings == {[kind |-> "NoneType", text |-> <<>>],
               [kind |-> "int", text |-> <<>>]}
\* A transcript that names the next meeting twice, the last time in a
\* sentence that is not the last.
MEETINGS ==
    <<"Next", " ", "meeting", " ", "Monday", ".", " ", "Next", " ", "meeting",
      " ", "Friday", "!", " ", "We", " ", "decided", " ", "to", " ", "hire",
      " ", "Dave", ".">>

Inputs(n) == {Str(t) : t \in Texts(n) \cup {MEETINGS}} \cup NonStrings

NoCall == [kind |-> "unset", text |-> <<>>]
NoResult == <<>>
NoPrevious == [transcript |-> NoCall, result |-> NoResult, raised |-> "none"]

----------------------------------------------------------------------------
(* What the remote service can do when LLMAnalyzer invokes it. *)

FULL_REPLY ==
    <<FENCE, "json", "\n", "{", "\"decisions\"", ":", " ", "[", "{",
      "\"content\"", ":", " ", "\"Adopt the plan\"", ",", " ",
      "\"impact_level\"", ":", " ", "\"High\"", ",", " ",
      "\"stakeholders\"", ":", " ", "[", "\"Alice\"", ",", " ", "\"Bob\"",
      "]", ",", " ", "\"confidence\"", ":", " ", "0.95", "}", "]", ",",
      " ", "\"action_items\"", ":", " ", "[", "{", "\"assignee\"", ":",
      " ", "\"Eve\"", ",", " ", "\"task\"", ":", " ",
      "\"Review the budget\"", ",", " ", "\"deadline\"", ":", " ",
      "\"Friday\"", ",", " ", "\"priority\"", ":", " ", "\"High\"", ",",
      " ", "\"confidence\"", ":", " ", "0.9", "}", "]", ",", " ",
      "\"metadata\"", ":", " ", "{", "\"next_meeting\"", ":", " ",
      "\"Monday\"", ",", " ", "\"attendees\"", ":", " ", "[", "\"Alice\"",
      ",", " ", "\"Bob\"", "]", ",", " ", "\"meeting_length\"", ":", " ",
      "3", "}", ",", " ", "\"sentiment\"", ":", " ", "{", "\"positive\"",
      ":", " ", "50", ",", " ", "\"negative\"", ":", " ", "20", ",", " ",
      "\"neutral\"", ":", " ", "30", "}", ",", " ", "\"risks\"", ":", " ",
      "[", "\"Budget risk\"", "]", ",", " ", "\"summary_stats\"", ":",
      " ", "{", "\"total_decisions\"", ":", " ", "1", ",", " ",
      "\"high_impact_decisions\"", ":", " ", "1", ",", " ",
      "\"total_actions\"", ":", " ", "1", ",", " ",
      "\"critical_actions\"", ":", " ", "0", ",", " ",
      "\"avg_confidence\"", ":", " ", "0.95", "}", "}", "\n", FENCE>>

EMPTY_OBJECT ==
    <<" ", "{", "}", "\n">>

EMPTY_ARRAY ==
    <<"[", "]">>

NUMBER ==
    <<"5">>

PROSE ==
    <<"Sorry", ",", " ", "I", " ", "cannot", " ", "help">>

NOTHING ==
    <<>>

LATE_FENCE ==
    <<"Here", ":", " ", FENCE, "json", " ", "{", "}", " ", FENCE>>

WRONG_TYPES ==
    <<"{", "\"decisions\"", ":", " ", "5", ",", " ", "\"action_items\"",
      ":", " ", "null", ",", " ", "\"metadata\"", ":", " ", "[", "]", ",",
      " ", "\"sentiment\"", ":", " ", "\"good\"", ",", " ", "\"risks\"",
      ":", " ", "{", "}", ",", " ", "\"summary_stats\"", ":", " ", "0",
      "}">>

BAD_STAKEHOLDERS ==
    <<"{", "\"decisions\"", ":", " ", "[", "{", "\"content\"", ":", " ",
      "[", "\"a\"", "]", ",", " ", "\"impact_level\"", ":", " ",
      "\"High\"", ",", " ", "\"stakeholders\"", ":", " ", "5", ",", " ",
      "\"confidence\"", ":", " ", "0.9", "}", "]", "}">>

ODD_FIELDS ==
    <<"{", "\"decisions\"", ":", " ", "[", "{", "\"content\"", ":", " ",
      "5", ",", " ", "\"impact_level\"", ":", " ", "null", ",", " ",
      "\"stakeholders\"", ":", " ", "\"Bob\"", ",", " ", "\"confidence\"",
      ":", " ", "\"high\"", "}", ",", " ", "\"junk\"", ",", " ", "{",
      "\"content\"", ":", " ", "\"x\"", "}", "]", ",", " ",
      "\"action_items\"", ":", " ", "[", "{", "\"assignee\"", ":", " ",
      "[", "\"Eve\"", ",", " ", "1", "]", ",", " ", "\"task\"", ":", " ",
      "{", "\"a\"", ":", " ", "0.5", "}", ",", " ", "\"deadline\"", ":",
      " ", "0.5", ",", " ", "\"priority\"", ":", " ", "\"HIGH\"", ",",
      " ", "\"confidence\"", ":", " ", "true", "}", "]", ",", " ",
      "\"risks\"", ":", " ", "[", "\"r1\"", ",", " ", "2", ",", " ",
      "null", ",", " ", "\"r4\"", ",", " ", "\"r5\"", ",", " ", "\"r6\"",
      "]", ",", " ", "\"metadata\"", ":", " ", "{", "\"next_meeting\"",
      ":", " ", "null", "}", "}">>

CUT_SHORT ==
    <<"{", "\"decisions\"", ":", " ", "[">>

TWO_VALUES ==
    <<"{", "}", " ", "{", "}">>

NO_COLON ==
    <<"{", "\"decisions\"", " ", "[", "]", "}">>

\* A str may hold a lone surrogate (U+D800), written ^ in this model.
LONE_SURROGATE == "^"
UNENCODABLE ==
    <<LONE_SURROGATE, " ", "oops">>

\* A reply whose texts hold HTML markup.
MARKUP ==
    <<"{", "\"decisions\"", ":", " ", "[", "{", "\"content\"", ":", " ",
      "\"Adopt <b>plan</b> & go\"", ",", " ", "\"impact_level\"", ":", " ",
      "\"<i>High</i>\"", ",", " ", "\"stakeholders\"", ":", " ", "[",
      "\"O'Neil\"", "]", ",", " ", "\"confidence\"", ":", " ", "0.9", "}",
      "]", ",", " ", "\"action_items\"", ":", " ", "[", "{",
      "\"assignee\"", ":", " ", "\"<u>Eve</u>\"", ",", " ", "\"task\"",
      ":", " ", "\"Review R&D\"", ",", " ", "\"deadline\"", ":", " ",
      "\"<Friday>\"", ",", " ", "\"priority\"", ":", " ",
      "\"<script>alert(1)</script>\"", ",", " ", "\"confidence\"", ":",
      " ", "0.9", "}", "]", ",", " ", "\"metadata\"", ":", " ", "{",
      "\"next_meeting\"", ":", " ", "\"<Monday>\"", ",", " ",
      "\"attendees\"", ":", " ", "\"Eve\"", "}", ",", " ",
      "\"sentiment\"", ":", " ", "{", "\"positive\"", ":", " ",
      "\"<50>\"", "}", ",", " ", "\"summary_stats\"", ":", " ", "{",
      "\"total_decisions\"", ":", " ", "\"<1>\"", "}", "}">>

REPLIES ==
    {FULL_REPLY, EMPTY_OBJECT, EMPTY_ARRAY, NUMBER, PROSE, NOTHING,
     LATE_FENCE, WRONG_TYPES, BAD_STAKEHOLDERS, ODD_FIELDS, CUT_SHORT,
     TWO_VALUES, NO_COLON, UNENCODABLE, MARKUP}

FIFTY_CHARS == "0123456789012345678901234567890123456789012345678 "
LONG_MESSAGE ==
    "429 Resource has been exhausted: " \o FIFTY_CHARS \o FIFTY_CHARS
    \o FIFTY_CHARS \o FIFTY_CHARS \o FIFTY_CHARS
UNENCODABLE_MESSAGE == "502 Bad Gateway: " \o LONE_SURROGATE

\* invoke raises e (message: str(e)); or it returns None, a message whose
\* content is a list or None, or a message whose content is a str.
Raises(message) ==
    [outcome |-> "raise", message |-> message, response |-> "none",
     content |-> PyNone]
Returns(response, content) ==
    [outcome |-> "return", message |-> "", response |-> response,
     content |-> content]

RemoteBehaviours ==
    {Raises("API key not valid"), Raises(LONG_MESSAGE),
     Raises(UNENCODABLE_MESSAGE),
     Returns("none", PyNone), Returns("message", PyNone),
     Returns("message", PyList(<<>>))}
    \cup {Returns("message", PyStr(reply)) : reply \in REPLIES}

NoRemote == Returns("none", PyNone)

\* print(s) encodes s for stdout (UTF-8, strict): a lone surrogate cannot be
\* encoded and print raises UnicodeEncodeError.
Encodable(s) == \A i \in 1..Len(s) : SubSeq(s, i, i) # LONE_SURROGATE
EncodableTokens(text) == \A i \in 1..Len(text) : Encodable(text[i])

----------------------------------------------------------------------------
(* The state after the process has started and the analyzers are built. *)

\* The extractors analyze_meeting calls, by the variable each one fills.
Extractors == {"decisions", "action_items", "metadata", "sentiment", "risks"}

\* main() is not running.
NoEmail == [kind |-> "none", values |-> <<>>]

NotRunning ==
    [at |-> "none", file |-> <<>>, transcript_text |-> <<>>,
     method |-> "", api_key |-> "", meeting_title |-> "", shown |-> {},
     html_email |-> NoEmail]

\* No extractor has taken a sentence or returned.
NotStarted == [e \in Extractors |-> [at |-> 0, returned |-> FALSE]]

Started ==
    /\ hashSeed \in HashSeeds
    /\ analyzer = "none"
    /\ pc = "idle"
    /\ transcript = NoCall
    /\ sentences = <<>>
    /\ decisions = <<>>
    /\ action_items = <<>>
    /\ metadata = [next_meeting |-> NOT_SPECIFIED, attendees |-> <<>>,
                   meeting_length |-> 0]
    /\ sentiment = ZeroScores
    /\ risks = <<>>
    /\ stats = <<>>
    /\ prompt = <<>>
    /\ remote = NoRemote
    /\ response_text = <<>>
    /\ parsed = <<>>
    /\ invocations = 0
    /\ result = NoResult
    /\ raised = "none"
    /\ previous = NoPrevious
    /\ scan_sentence = <<>>
    /\ sentiment_scores = ZeroScores
    /\ scanned = 0
    /\ progress = NotStarted
    /\ ui = NotRunning

\* No extractor has a defect.
Init == Started /\ fault = "none"

patternLocals == <<sentences, decisions, action_items, metadata, sentiment,
                   risks, stats>>
llmLocals == <<prompt, remote, response_text, parsed, invocations>>
loopLocals == <<scan_sentence, sentiment_scores, scanned, progress, ui>>

----------------------------------------------------------------------------
(* EnterpriseAnalyzer.analyze_meeting, one action per statement. *)

\* The caller enters analyze_meeting(x).
Enter(x) ==
    /\ analyzer' = "pattern"
    /\ pc' = "preprocess"
    /\ transcript' = x
    /\ result' = NoResult
    /\ raised' = "none"
    /\ UNCHANGED <<hashSeed, fault, patternLocals, llmLocals, loopLocals>>

CallPattern ==
    /\ pc = "idle"
    /\ \E x \in Inputs(MaxSegments) : Enter(x)
    /\ UNCHANGED previous

\* sentences = self.text_processor.preprocess_text(transcript); re.sub on
\* an argument that is no str raises TypeError, which nothing catches.
Preprocess ==
    /\ analyzer = "pattern" /\ pc = "preprocess"
    /\ IF transcript.kind = "str"
       THEN /\ sentences' = preprocess_text(transcript.text)
            /\ pc' = "decisions"
            /\ UNCHANGED raised
       ELSE /\ raised' = "TypeError"
            /\ pc' = "done"
            /\ UNCHANGED sentences
    /\ UNCHANGED <<hashSeed, fault, analyzer, transcript, decisions,
                   action_items, metadata, sentiment, risks, stats, llmLocals,
                   result, previous, loopLocals>>

\* An exception raised inside an extractor: analyze_meeting has no try
\* block, the exception ends the call and reaches the caller.
ExtractorRaises(local) ==
    /\ raised' = "RuntimeError"
    /\ pc' = "done"
    /\ UNCHANGED local

ExtractDecisions ==
    /\ analyzer = "pattern" /\ pc = "decisions"
    /\ IF fault = "decisions" THEN ExtractorRaises(decisions)
       ELSE /\ decisions' = _extract_decisions(hashSeed, sentences)
            /\ pc' = "actions"
            /\ UNCHANGED raised
    /\ UNCHANGED <<hashSeed, fault, analyzer, transcript, sentences,
                   action_items, metadata, sentiment, risks, stats, llmLocals,
                   result, previous, loopLocals>>

ExtractActions ==
    /\ analyzer = "pattern" /\ pc = "actions"
    /\ IF fault = "action_items" THEN ExtractorRaises(action_items)
       ELSE /\ action_items' = _extract_actions(sentences)
            /\ pc' = "metadata"
            /\ UNCHANGED raised
    /\ UNCHANGED <<hashSeed, fault, analyzer, transcript, sentences, decisions,
                   metadata, sentiment, risks, stats, llmLocals, result,
                   previous, loopLocals>>

\* A variant of ExtractMetadata in which the attendee set outlives the call.
ExtractMetadataKeepingAttendees ==
    /\ analyzer = "pattern" /\ pc = "metadata"
    /\ IF fault = "metadata" THEN ExtractorRaises(metadata)
       ELSE /\ LET fresh == _extract_metadata(hashSeed, sentences)
               IN  metadata' =
                     [fresh EXCEPT !.attendees =
                        AttendeesCut(SetToList(hashSeed,
                            Range(metadata.attendees)
                            \cup Range(fresh.attendees)))]
            /\ pc' = "sentiment"
            /\ UNCHANGED raised
    /\ UNCHANGED <<hashSeed, fault, analyzer, transcript, sentences, decisions,
                   action_items, sentiment, risks, stats, llmLocals, result,
                   previous, loopLocals>>

ExtractMetadata ==
    /\ analyzer = "pattern" /\ pc = "metadata"
    /\ IF fault = "metadata" THEN ExtractorRaises(metadata)
       ELSE /\ metadata' = _extract_metadata(hashSeed, sentences)
            /\ pc' = "sentiment"
            /\ UNCHANGED raised
    /\ UNCHANGED <<hashSeed, fault, analyzer, transcript, sentences, decisions,
                   action_items, sentiment, risks, stats, llmLocals, result,
                   previous, loopLocals>>

AnalyzeSentiment ==
    /\ analyzer = "pattern" /\ pc = "sentiment"
    /\ IF fault = "sentiment" THEN ExtractorRaises(sentiment)
       ELSE /\ sentiment' = _analyze_sentiment(sentences)
            /\ pc' = "risks"
            /\ UNCHANGED raised
    /\ UNCHANGED <<hashSeed, fault, analyzer, transcript, sentences, decisions,
                   action_items, metadata, risks, stats, llmLocals, result,
                   previous, loopLocals>>

AssessRisks ==
    /\ analyzer = "pattern" /\ pc = "risks"
    /\ IF fault = "risks" THEN ExtractorRaises(risks)
       ELSE /\ risks' = _assess_risks(sentences)
            /\ pc' = "stats"
            /\ UNCHANGED raised
    /\ UNCHANGED <<hashSeed, fault, analyzer, transcript, sentences, decisions,
                   action_items, metadata, sentiment, stats, llmLocals, result,
                   previous, loopLocals>>

GenerateStats ==
    /\ analyzer = "pattern" /\ pc = "stats"
    /\ stats' = _generate_stats(decisions, action_items)
    /\ pc' = "return"
    /\ UNCHANGED <<hashSeed, fault, analyzer, transcript, sentences, decisions,
                   action_items, metadata, sentiment, risks, llmLocals, result,
                   raised, previous, loopLocals>>

\* return MeetingAnalysis(decisions=decisions, ...)
ReturnAnalysis ==
    /\ analyzer = "pattern" /\ pc = "return"
    /\ result' = MeetingAnalysis(decisions, action_items, metadata,
                                 sentiment, risks, stats)
    /\ pc' = "done"
    /\ UNCHANGED <<hashSeed, fault, analyzer, transcript, patternLocals,
                   llmLocals, raised, previous, loopLocals>>

PatternStep ==
    \/ Preprocess
    \/ ExtractDecisions
    \/ ExtractActions
    \/ ExtractMetadata
    \/ AnalyzeSentiment
    \/ AssessRisks
    \/ GenerateStats
    \/ ReturnAnalysis

----------------------------------------------------------------------------
(* LLMAnalyzer.analyze_meeting, one action per step. *)

CallLLM ==
    /\ pc = "idle"
    /\ \E x \in Inputs(MaxSegments) :
          /\ analyzer' = "llm"
          /\ pc' = "validate"
          /\ transcript' = x
    /\ result' = NoResult
    /\ raised' = "none"
    /\ invocations' = 0
    /\ remote' = NoRemote
    /\ UNCHANGED <<hashSeed, fault, patternLocals, prompt, response_text,
                   parsed, previous, loopLocals>>

\* return self._create_fallback_analysis(error_message)
ReturnFallback(error_message) ==
    /\ result' = _create_fallback_analysis(error_message)
    /\ pc' = "done"
    /\ UNCHANGED raised

\* The print of an except block raises: nothing catches it, the call ends
\* with the exception.
PrintRaises ==
    /\ raised' = "UnicodeEncodeError"
    /\ pc' = "done"
    /\ UNCHANGED result

\* A variant of ValidateInput that builds the prompt and goes on to the
\* remote call whatever the transcript is.
ValidateInputNever ==
    /\ analyzer = "llm" /\ pc = "validate"
    /\ prompt' = PromptTranscript(transcript.text)
    /\ pc' = "invoke"
    /\ UNCHANGED <<result, raised>>
    /\ UNCHANGED <<hashSeed, fault, analyzer, transcript, patternLocals,
                   remote, response_text, parsed, invocations, previous,
                   loopLocals>>

\* Input validation, the 50KB limit and the prompt.
ValidateInput ==
    /\ analyzer = "llm" /\ pc = "validate"
    /\ IF transcript.kind # "str" \/ Strip(transcript.text) = <<>>
       THEN /\ ReturnFallback("Empty or invalid transcript provided")
            /\ UNCHANGED prompt
       ELSE /\ prompt' = PromptTranscript(transcript.text)
            /\ pc' = "invoke"
            /\ UNCHANGED <<result, raised>>
    /\ UNCHANGED <<hashSeed, fault, analyzer, transcript, patternLocals,
                   remote, response_text, parsed, invocations, previous,
                   loopLocals>>

\* Step 1: response = self.llm.invoke(prompt); the except block prints e
\* and returns the fallback.
InvokeLLM ==
    /\ analyzer = "llm" /\ pc = "invoke"
    /\ invocations' = invocations + 1
    /\ \E behaviour \in RemoteBehaviours :
          /\ remote' = behaviour
          /\ IF behaviour.outcome # "raise"
             THEN pc' = "content" /\ UNCHANGED <<result, raised>>
             ELSE IF Encodable(behaviour.message)
             THEN ReturnFallback("LLM invocation failed: "
                                 \o behaviour.message)
             ELSE PrintRaises
    /\ UNCHANGED <<hashSeed, fault, analyzer, transcript, patternLocals,
                   prompt, response_text, parsed, previous, loopLocals>>

\* str(e) of the AttributeError that response.content.strip() raises
ContentError ==
    IF remote.response = "none"
    THEN "'NoneType' object has no attribute 'content'"
    ELSE "'" \o remote.content.ty \o "' object has no attribute 'strip'"

\* Step 2: response_text = response.content.strip()
ExtractContent ==
    /\ analyzer = "llm" /\ pc = "content"
    /\ IF remote.response = "message" /\ remote.content.ty = "str"
       THEN /\ response_text' = Strip(remote.content.v)
            /\ pc' = "clean"
            /\ UNCHANGED <<result, raised>>
       ELSE /\ ReturnFallback("Content extraction failed: " \o ContentError)
            /\ UNCHANGED response_text
    /\ UNCHANGED <<hashSeed, fault, analyzer, transcript, patternLocals,
                   prompt, remote, parsed, invocations, previous, loopLocals>>

\* Step 3: the markdown fences go when the text starts with one.
CleanMarkdown ==
    /\ analyzer = "llm" /\ pc = "clean"
    /\ response_text' =
         IF StartsWithJsonFence(response_text)
         THEN RemoveFences(response_text) ELSE response_text
    /\ pc' = "parse"
    /\ UNCHANGED <<hashSeed, fault, analyzer, transcript, patternLocals,
                   prompt, remote, parsed, invocations, result, raised,
                   previous, loopLocals>>

\* Step 4: result = json.loads(response_text); the except block prints e
\* and response_text[:500] and returns the fallback.
ParseJSON ==
    /\ analyzer = "llm" /\ pc = "parse"
    /\ LET r == json_loads(response_text)
       IN  IF r.ok
           THEN /\ parsed' = r.val
                /\ pc' = "convert"
                /\ UNCHANGED <<result, raised>>
           ELSE /\ IF EncodableTokens(FirstCharsOfTokens(response_text,
                                                         MAX_TEXT_LENGTH))
                   THEN ReturnFallback("JSON parsing failed: "
                                       \o DecodeErrorText(response_text, r))
                   ELSE PrintRaises
                /\ UNCHANGED parsed
    /\ UNCHANGED <<hashSeed, fault, analyzer, transcript, patternLocals,
                   prompt, remote, response_text, invocations, previous,
                   loopLocals>>

\* Step 5: the decisions and action items of the parsed value.
ConvertModels ==
    /\ analyzer = "llm" /\ pc = "convert"
    /\ IF parsed.ty # "dict"
       THEN /\ ReturnFallback("Invalid result format - not a dictionary")
            /\ UNCHANGED <<decisions, action_items>>
       ELSE IF ~ConvertDecisions(parsed).ok
       THEN /\ ReturnFallback("Data model conversion failed: "
                              \o ConvertDecisions(parsed).msg)
            /\ UNCHANGED <<decisions, action_items>>
       ELSE /\ decisions' = ConvertDecisions(parsed).items
            /\ action_items' = ConvertActions(parsed)
            /\ pc' = "assemble"
            /\ UNCHANGED <<result, raised>>
    /\ UNCHANGED <<hashSeed, fault, analyzer, transcript, sentences, metadata,
                   sentiment, risks, stats, llmLocals, previous, loopLocals>>

\* Step 6: return MeetingAnalysis(decisions=decisions, ...)
AssembleAnalysis ==
    /\ analyzer = "llm" /\ pc = "assemble"
    /\ result' = AssembledAnalysis(decisions, action_items, parsed)
    /\ pc' = "done"
    /\ UNCHANGED <<hashSeed, fault, analyzer, transcript, patternLocals,
                   llmLocals, raised, previous, loopLocals>>

LLMStep ==
    \/ ValidateInput
    \/ InvokeLLM
    \/ ExtractContent
    \/ CleanMarkdown
    \/ ParseJSON
    \/ ConvertModels
    \/ AssembleAnalysis

Next ==
    \/ CallPattern
    \/ PatternStep
    \/ CallLLM
    \/ LLMStep

Spec == Init /\ [][Next]_vars

----------------------------------------------------------------------------
(* A caller that calls analyze_meeting again and again in one process. *)

\* The next call starts when the one before has ended; the locals of the
\* ended call are garbage by then and are left as they were.
CallAgain ==
    /\ pc \in {"idle", "done"}
    /\ \E x \in Inputs(RepeatSegments) : Enter(x)
    /\ previous' =
         IF pc = "done"
         THEN [transcript |-> transcript, result |-> result,
               raised |-> raised]
         ELSE previous

NextRepeat ==
    \/ CallAgain
    \/ PatternStep

SpecRepeat == Init /\ [][NextRepeat]_vars

----------------------------------------------------------------------------
(* _extract_decisions and _extract_actions, one action per pass of their
   inner loops and one per return statement. *)

\* A transcript with more decisions than the cap, two of them different
\* and of equal confidence.
CROWDED == PLAT \o BOTH \o BOTH

\* Sentences with several deadline keywords: 'before' ahead of 'due', 'due'
\* ahead of 'by', 'before' and 'deadline' with no date after them, and
\* 'deadline' with a date.
DEADLINES ==
    <<"Bob", " ", "will", " ", "deliver", " ", "before", " ", "Friday", " ",
      "and", " ", "it", " ", "is", " ", "due", " ", "Monday", ".", " ",
      "Eve", " ", "must", " ", "pay", " ", "the", " ", "deposit", " ", "due",
      " ", "March", " ", "15th", " ", "by", " ", "Friday", "!", " ",
      "Carol", " ", "should", " ", "ask", " ", "before", " ", "the", " ",
      "deadline", ".", " ",
      "Dave", " ", "will", " ", "meet", " ", "the", " ", "deadline", " ",
      "March", " ", "15th", "?">>

ExtractTexts == Texts(MaxSegments) \cup {URGENT, CROWDED, DEADLINES}

\* sentences = preprocess_text(transcript); decisions = []
EnterExtract ==
    /\ pc = "idle"
    /\ \E text \in ExtractTexts :
          /\ transcript' = Str(text)
          /\ sentences' = preprocess_text(text)
    /\ analyzer' = "extract"
    /\ pc' = "decision_loop"
    /\ decisions' = <<>>
    /\ scanned' = 0
    /\ UNCHANGED <<hashSeed, fault, action_items, metadata, sentiment, risks,
                   stats, llmLocals, result, raised, previous, progress, ui,
                   scan_sentence, sentiment_scores>>

\* The sentence and the pattern of pass number n + 1 of a loop over the
\* sentences and, inside it, over npatterns patterns.
PassSentence(n, npatterns) == (n \div npatterns) + 1
PassPattern(n, npatterns) == (n % npatterns) + 1

\* for sentence in sentences: for pattern, confidence in DECISION_PATTERNS
DecisionPass ==
    /\ analyzer = "extract" /\ pc = "decision_loop"
    /\ scanned < Len(sentences) * Len(DECISION_PATTERNS)
    /\ LET i == PassSentence(scanned, Len(DECISION_PATTERNS))
           k == PassPattern(scanned, Len(DECISION_PATTERNS))
       IN  /\ scan_sentence' = sentences[i]
           /\ decisions' = decisions \o DecisionOf(hashSeed, sentences[i], k)
    /\ scanned' = scanned + 1
    /\ UNCHANGED <<hashSeed, fault, analyzer, pc, transcript, sentences,
                   action_items, metadata, sentiment, risks, stats,
                   llmLocals, result, raised, previous, progress, ui, sentiment_scores>>

\* return sorted(decisions, key=lambda x: x.confidence, reverse=True)[:5];
\* actions = []
ReturnDecisions ==
    /\ analyzer = "extract" /\ pc = "decision_loop"
    /\ scanned = Len(sentences) * Len(DECISION_PATTERNS)
    /\ decisions' =
         DecisionsCut(SortedDescending(decisions,
            [i \in 1..Len(decisions) |-> decisions[i].confidence]))
    /\ pc' = "action_loop"
    /\ action_items' = <<>>
    /\ scanned' = 0
    /\ UNCHANGED <<hashSeed, fault, analyzer, transcript, sentences, metadata,
                   sentiment, risks, stats, llmLocals, result, raised,
                   previous, progress, ui, scan_sentence, sentiment_scores>>

\* for sentence in sentences: for pattern, confidence in ACTION_PATTERNS
ActionPass ==
    /\ analyzer = "extract" /\ pc = "action_loop"
    /\ scanned < Len(sentences) * Len(ACTION_PATTERNS)
    /\ LET i == PassSentence(scanned, Len(ACTION_PATTERNS))
           k == PassPattern(scanned, Len(ACTION_PATTERNS))
       IN  /\ scan_sentence' = sentences[i]
           /\ action_items' = action_items \o ActionOf(sentences[i], k)
    /\ scanned' = scanned + 1
    /\ UNCHANGED <<hashSeed, fault, analyzer, pc, transcript, sentences,
                   decisions, metadata, sentiment, risks, stats, llmLocals,
                   result, raised, previous, progress, ui, sentiment_scores>>

\* return sorted(actions, key=lambda x: (x.priority == 'critical',
\* x.confidence), reverse=True)[:8]
ReturnActions ==
    /\ analyzer = "extract" /\ pc = "action_loop"
    /\ scanned = Len(sentences) * Len(ACTION_PATTERNS)
    /\ action_items' =
         ActionsCut(SortedDescending(action_items,
            [i \in 1..Len(action_items) |-> ActionKey(action_items[i])]))
    /\ pc' = "done"
    /\ UNCHANGED <<hashSeed, fault, analyzer, transcript, sentences, decisions,
                   metadata, sentiment, risks, stats, llmLocals, result,
                   raised, previous, loopLocals>>

NextExtract ==
    \/ EnterExtract
    \/ DecisionPass
    \/ ReturnDecisions
    \/ ActionPass
    \/ ReturnActions

SpecExtract == Init /\ [][NextExtract]_vars

----------------------------------------------------------------------------
(* EnterpriseAnalyzer.analyze_meeting when one extractor may have a defect. *)

InitFault == Started /\ fault \in Extractors \cup {"none"}

NextFault ==
    \/ CallPattern
    \/ PatternStep

SpecFault == InitFault /\ [][NextFault]_vars

----------------------------------------------------------------------------
(* The five extractors of analyze_meeting run by a host that interleaves   *)
(* their per-sentence steps in any order.  Each extractor keeps its own    *)
(* order of sentences and patterns.                                        *)

InterleaveTexts == Range(Paragraphs)

\* sentences = self.text_processor.preprocess_text(transcript); every
\* extractor starts with its empty locals.
EnterInterleaved ==
    /\ pc = "idle"
    /\ \E text \in InterleaveTexts :
          /\ transcript' = Str(text)
          /\ sentences' = preprocess_text(text)
    /\ analyzer' = "interleaved"
    /\ pc' = "extracting"
    /\ decisions' = <<>>
    /\ action_items' = <<>>
    /\ metadata' = [next_meeting |-> NOT_SPECIFIED, attendees |-> {}]
    /\ sentiment_scores' = ZeroScores
    /\ risks' = <<>>
    /\ progress' = NotStarted
    /\ UNCHANGED <<hashSeed, fault, sentiment, stats, llmLocals, result,
                   raised, previous, ui, scan_sentence, scanned>>

\* Extractor e is inside its loop, with a sentence left to take.
InLoop(e) ==
    /\ analyzer = "interleaved" /\ pc = "extracting"
    /\ ~progress[e].returned
    /\ progress[e].at < Len(sentences)

\* Extractor e has left its loop and has not returned yet.
AtReturn(e) ==
    /\ analyzer = "interleaved" /\ pc = "extracting"
    /\ ~progress[e].returned
    /\ progress[e].at = Len(sentences)

Advance(e) == progress' = [progress EXCEPT ![e].at = @ + 1]
Return(e) == progress' = [progress EXCEPT ![e].returned = TRUE]

\* _extract_decisions: one pass of `for sentence in sentences`.
DecisionsSentence ==
    /\ InLoop("decisions")
    /\ LET sentence == sentences[progress["decisions"].at + 1]
       IN  decisions' = decisions \o
              Flatten([k \in 1..Len(DECISION_PATTERNS) |->
                          DecisionOf(hashSeed, sentence, k)])
    /\ Advance("decisions")
    /\ UNCHANGED <<hashSeed, fault, analyzer, pc, transcript, sentences,
                   action_items, metadata, sentiment, risks, stats,
                   llmLocals, result, raised, previous, ui, scan_sentence,
                   sentiment_scores, scanned>>

\* _extract_decisions: return sorted(decisions, ...)[:5]
DecisionsReturn ==
    /\ AtReturn("decisions")
    /\ decisions' =
         DecisionsCut(SortedDescending(decisions,
            [i \in 1..Len(decisions) |-> decisions[i].confidence]))
    /\ Return("decisions")
    /\ UNCHANGED <<hashSeed, fault, analyzer, pc, transcript, sentences,
                   action_items, metadata, sentiment, risks, stats,
                   llmLocals, result, raised, previous, ui, scan_sentence,
                   sentiment_scores, scanned>>

\* _extract_actions: one pass of `for sentence in sentences`.
ActionsSentence ==
    /\ InLoop("action_items")
    /\ LET sentence == sentences[progress["action_items"].at + 1]
       IN  action_items' = action_items \o
              Flatten([k \in 1..Len(ACTION_PATTERNS) |->
                          ActionOf(sentence, k)])
    /\ Advance("action_items")
    /\ UNCHANGED <<hashSeed, fault, analyzer, pc, transcript, sentences,
                   decisions, metadata, sentiment, risks, stats, llmLocals,
                   result, raised, previous, ui, scan_sentence,
                   sentiment_scores, scanned>>

\* _extract_actions: return sorted(actions, ...)[:8]
ActionsReturn ==
    /\ AtReturn("action_items")
    /\ action_items' =
         ActionsCut(SortedDescending(action_items,
            [i \in 1..Len(action_items) |-> ActionKey(action_items[i])]))
    /\ Return("action_items")
    /\ UNCHANGED <<hashSeed, fault, analyzer, pc, transcript, sentences,
                   decisions, metadata, sentiment, risks, stats, llmLocals,
                   result, raised, previous, ui, scan_sentence,
                   sentiment_scores, scanned>>

\* _extract_metadata: one pass of `for sentence in sentences`; metadata
\* holds the locals next_meeting and attendees (a set) while the loop runs.
MetadataSentence ==
    /\ InLoop("metadata")
    /\ LET sentence == sentences[progress["metadata"].at + 1]
           match == re_search(NEXT_MEETING_PATTERN, Lower(sentence))
       IN  metadata' =
              [next_meeting |->
                  IF match.ok THEN Title(Strip(match.groups[1]))
                  ELSE metadata.next_meeting,
               attendees |->
                  metadata.attendees
                  \cup Range(extract_names(hashSeed, sentence))]
    /\ Advance("metadata")
    /\ UNCHANGED <<hashSeed, fault, analyzer, pc, transcript, sentences,
                   decisions, action_items, sentiment, risks, stats,
                   llmLocals, result, raised, previous, ui, scan_sentence,
                   sentiment_scores, scanned>>

\* _extract_metadata: return {'next_meeting': ..., 'attendees':
\* list(attendees)[:10], 'meeting_length': len(sentences)}
MetadataReturn ==
    /\ AtReturn("metadata")
    /\ metadata' =
         [next_meeting |-> metadata.next_meeting,
          attendees |-> AttendeesCut(SetToList(hashSeed, metadata.attendees)),
          meeting_length |-> Len(sentences)]
    /\ Return("metadata")
    /\ UNCHANGED <<hashSeed, fault, analyzer, pc, transcript, sentences,
                   decisions, action_items, sentiment, risks, stats,
                   llmLocals, result, raised, previous, ui, scan_sentence,
                   sentiment_scores, scanned>>

\* _analyze_sentiment: one pass of `for sentence in sentences`.
SentimentSentence ==
    /\ InLoop("sentiment")
    /\ sentiment_scores' =
         ScoreSentence(sentiment_scores,
                       sentences[progress["sentiment"].at + 1])
    /\ Advance("sentiment")
    /\ UNCHANGED <<hashSeed, fault, analyzer, pc, transcript, sentences,
                   decisions, action_items, metadata, sentiment, risks,
                   stats, llmLocals, result, raised, previous, ui,
                   scan_sentence, scanned>>

\* _analyze_sentiment: total = sum(...) or 1; return {k: round(...) ...}
SentimentReturn ==
    /\ AtReturn("sentiment")
    /\ sentiment' = Percentages(sentiment_scores)
    /\ Return("sentiment")
    /\ UNCHANGED <<hashSeed, fault, analyzer, pc, transcript, sentences,
                   decisions, action_items, metadata, risks, stats,
                   llmLocals, result, raised, previous, ui, scan_sentence,
                   sentiment_scores, scanned>>

\* A variant of RisksSentence that lowercases the sentence in place, in
\* the list the extractors share.
RisksSentenceInPlace ==
    /\ InLoop("risks")
    /\ LET i == progress["risks"].at + 1
       IN  /\ sentences' = [sentences EXCEPT ![i] = Lower(@)]
           /\ risks' = IF AnyKeyword(Lower(sentences[i]), RISK_KEYWORDS)
                       THEN Append(risks, Strip(Lower(sentences[i])))
                       ELSE risks
    /\ Advance("risks")
    /\ UNCHANGED <<hashSeed, fault, analyzer, pc, transcript, decisions,
                   action_items, metadata, sentiment, stats, llmLocals,
                   result, raised, previous, ui, scan_sentence,
                   sentiment_scores, scanned>>

\* _assess_risks: one pass of `for sentence in sentences`.
RisksSentence ==
    /\ InLoop("risks")
    /\ LET sentence == sentences[progress["risks"].at + 1]
       IN  risks' = IF IsRisk(sentence)
                    THEN Append(risks, Strip(sentence)) ELSE risks
    /\ Advance("risks")
    /\ UNCHANGED <<hashSeed, fault, analyzer, pc, transcript, sentences,
                   decisions, action_items, metadata, sentiment, stats,
                   llmLocals, result, raised, previous, ui, scan_sentence,
                   sentiment_scores, scanned>>

\* _assess_risks: return risks[:3]
RisksReturn ==
    /\ AtReturn("risks")
    /\ risks' = RisksCut(risks)
    /\ Return("risks")
    /\ UNCHANGED <<hashSeed, fault, analyzer, pc, transcript, sentences,
                   decisions, action_items, metadata, sentiment, stats,
                   llmLocals, result, raised, previous, ui, scan_sentence,
                   sentiment_scores, scanned>>

\* stats = self._generate_stats(decisions, actions);
\* return MeetingAnalysis(...), once every extractor has returned.
Assemble ==
    /\ analyzer = "interleaved" /\ pc = "extracting"
    /\ \A e \in Extractors : progress[e].returned
    /\ stats' = _generate_stats(decisions, action_items)
    /\ result' = MeetingAnalysis(decisions, action_items, metadata,
                                 sentiment, risks, stats')
    /\ pc' = "done"
    /\ UNCHANGED <<hashSeed, fault, analyzer, transcript, sentences,
                   decisions, action_items, metadata, sentiment, risks,
                   llmLocals, raised, previous, loopLocals>>

NextInterleaved ==
    \/ EnterInterleaved
    \/ DecisionsSentence
    \/ DecisionsReturn
    \/ ActionsSentence
    \/ ActionsReturn
    \/ MetadataSentence
    \/ MetadataReturn
    \/ SentimentSentence
    \/ SentimentReturn
    \/ RisksSentence
    \/ RisksReturn
    \/ Assemble

SpecInterleaved == Init /\ [][NextInterleaved]_vars

----------------------------------------------------------------------------
(* app.py: the monolithic EnterpriseAnalyzer, whose extract_advanced_summary *)
(* returns a dict with the keys of MeetingAnalysis.  Its pattern and        *)
(* keyword lists are literals of the class, written here as they stand      *)
(* there.                                                                   *)

\* self.priority_keywords
priority_keywords ==
    << [name |-> "critical",
        keywords |-> Words({"urgent", "asap", "critical", "emergency",
                            "immediately"})],
       [name |-> "high",
        keywords |-> Words({"important", "priority", "must", "required",
                            "essential"})],
       [name |-> "medium",
        keywords |-> Words({"should", "recommended", "preferred",
                            "consider"})],
       [name |-> "low",
        keywords |-> Words({"could", "maybe", "optional"})
                        \cup {<<"nice", SP, "to", SP, "have">>}] >>

\* self.sentiment_indicators
sentiment_indicators ==
    << [name |-> "positive",
        keywords |-> Words({"great", "excellent", "perfect", "amazing",
                            "successful"})],
       [name |-> "negative",
        keywords |-> Words({"problem", "issue", "concern", "delay",
                            "blocker"})],
       [name |-> "neutral",
        keywords |-> Words({"update", "status", "review", "discuss",
                            "consider"})] >>

\* return [s.strip() for s in sentences if len(s.strip()) > 10]
_preprocess_text(text) ==
    LET pieces == SelectSeq(SplitSentences(CollapseWhitespace(text)),
                            LAMBDA piece : StrLen(Strip(piece)) > 10)
    IN  [i \in 1..Len(pieces) |-> Strip(pieces[i])]

\* app.py's _assess_impact
app_assess_impact(sentence) ==
    LET high_impact == Words({"budget", "hire", "fire", "strategy", "launch",
                              "cancel"})
        medium_impact == Words({"feature", "timeline", "resource", "process"})
    IN  IF AnyKeyword(Lower(sentence), high_impact) THEN "High"
        ELSE IF AnyKeyword(Lower(sentence), medium_impact) THEN "Medium"
        ELSE "Low"

\* app.py's _assess_priority: the first priority, in the order of the dict,
\* one of whose keywords is in the sentence.
app_assess_priority(sentence) ==
    LET hits == {k \in 1..Len(priority_keywords) :
                    AnyKeyword(Lower(sentence), priority_keywords[k].keywords)}
    IN  IF hits = {} THEN "medium" ELSE priority_keywords[Min(hits)].name

\* The first of the four deadline patterns that matches gives the deadline.
_extract_deadline(sentence) ==
    LET deadline_patterns == <<"by", "due", "deadline", "before">>
        hits == {k \in 1..Len(deadline_patterns) :
                    DeadlineSearch(Lower(sentence), deadline_patterns[k])
                       # <<>>}
    IN  IF hits = {} THEN <<"Not", " ", "specified">>
        ELSE Title(DeadlineSearch(Lower(sentence),
                                  deadline_patterns[Min(hits)]))

\* names = re.findall(r'\b[A-Z][a-z]+\b', sentence); list(set(names))[:3]
_extract_stakeholders(seed, sentence) ==
    Take(SetToList(seed, Range(FindNames(sentence))), 3)

_extract_decisions_advanced(seed, sents) ==
    LET decision_patterns ==
            << [re |-> <<Lit(<<"we", SP>>),
                         Alt(<<W1("decided"), W1("agreed"), W1("concluded"),
                               W1("determined")>>),
                         Lit(<<SP>>), Alt(<<W1("to"), W1("that")>>), Lit(<<SP>>),
                         RestGroup>>,
                confidence |-> 90],
               [re |-> <<Alt(<<W1("decision"), W1("conclusion")>>), Lit(<<":", SP>>),
                         RestGroup>>,
                confidence |-> 80],
               [re |-> <<Lit(<<"it", SP, "was", SP>>),
                         Alt(<<W1("decided"), W1("agreed")>>), Lit(<<SP>>),
                         RestGroup>>,
                confidence |-> 85],
               [re |-> <<Lit(<<"we", SP, "will", SP>>),
                         Alt(<<<<"go", SP, "with">>, W1("choose"), W1("select"),
                               W1("implement")>>),
                         Lit(<<SP>>), RestGroup>>,
                confidence |-> 80],
               [re |-> <<Lit(<<"final", SP, "decision", SP>>), RestGroup>>,
                confidence |-> 95],
               [re |-> <<Lit(<<"approved", SP>>), RestGroup>>,
                confidence |-> 70] >>
        decision(sentence, k) ==
            LET match == re_search(decision_patterns[k].re, Lower(sentence))
                content == Strip(Last(match.groups))
            IN  IF match.ok /\ StrLen(content) > 15
                THEN << [content |-> Capitalize(content),
                         impact_level |-> app_assess_impact(sentence),
                         stakeholders |->
                            _extract_stakeholders(seed, sentence),
                         confidence |-> decision_patterns[k].confidence] >>
                ELSE <<>>
        found == Flatten([i \in 1..Len(sents) |->
                    Flatten([k \in 1..Len(decision_patterns) |->
                                decision(sents[i], k)])])
    IN  Take(SortedDescending(found,
                [i \in 1..Len(found) |-> found[i].confidence]), 5)

_extract_actions_advanced(sents) ==
    LET action_patterns ==
            << [re |-> <<WordGroup, Lit(<<SP>>),
                         Alt(<<W1("will"), W1("should"), <<"needs", SP, "to">>,
                               W1("must")>>),
                         Lit(<<SP>>), RestGroup>>,
                confidence |-> 80],
               [re |-> <<Lit(<<"action", SP, "item", ":", SP>>), WordGroup,
                         Lit(<<SP, "-", SP>>), RestGroup>>,
                confidence |-> 90],
               [re |-> <<WordGroup,
                         Lit(<<SP, "is", SP, "responsible", SP, "for", SP>>),
                         RestGroup>>,
                confidence |-> 85],
               [re |-> <<WordGroup, Lit(<<SP, "to", SP>>), RestGroup,
                         Lit(<<SP, "by", SP>>), RestGroup>>,
                confidence |-> 90],
               [re |-> <<Lit(<<"assign", SP>>), WordGroup, Lit(<<SP, "to", SP>>),
                         RestGroup>>,
                confidence |-> 70] >>
        action(sentence, k) ==
            LET match == re_search(action_patterns[k].re, Lower(sentence))
            IN  IF match.ok
                THEN << [assignee |-> Capitalize(match.groups[1]),
                         task |-> Strip(match.groups[2]),
                         deadline |-> _extract_deadline(sentence),
                         priority |-> app_assess_priority(sentence),
                         confidence |-> action_patterns[k].confidence] >>
                ELSE <<>>
        found == Flatten([i \in 1..Len(sents) |->
                    Flatten([k \in 1..Len(action_patterns) |->
                                action(sents[i], k)])])
    IN  Take(SortedDescending(found,
                [i \in 1..Len(found) |->
                    (IF found[i].priority = "critical" THEN 1000 ELSE 0)
                    + found[i].confidence]), 8)

\* The set attendees at the end of the loop of app.py's _extract_metadata:
\* every name re.findall gives, of every sentence.
app_attendees(sents) ==
    UNION {Range(FindNames(sents[i])) : i \in 1..Len(sents)}

\* app.py's _extract_metadata
app_extract_metadata(seed, sents) ==
    LET pattern == <<Lit(<<"next", SP, "meeting", SP>>), RestGroup>>
        naming == {i \in 1..Len(sents) :
                      re_search(pattern, Lower(sents[i])).ok}
    IN  [next_meeting |->
            IF naming = {} THEN <<"Not", " ", "specified">>
            ELSE Title(Strip(re_search(pattern,
                                Lower(sents[Max(naming)])).groups[1])),
         attendees |-> Take(SetToList(seed, app_attendees(sents)), 10),
         meeting_length |-> Len(sents)]

\* app.py's _analyze_sentiment, in tenths of a percent
app_analyze_sentiment(sents) ==
    LET score(k) == Cardinality({i \in 1..Len(sents) :
                       AnyKeyword(Lower(sents[i]),
                                  sentiment_indicators[k].keywords)})
        sum == score(1) + score(2) + score(3)
        total == IF sum = 0 THEN 1 ELSE sum
    IN  [b \in {sentiment_indicators[k].name : k \in 1..3} |->
            LET k == CHOOSE j \in 1..3 : sentiment_indicators[j].name = b
            IN  RoundHalfEven(score(k) * 1000, total)]

\* app.py's _assess_risks
app_assess_risks(sents) ==
    LET risk_keywords == Words({"delay", "blocker", "issue", "problem",
                                "concern", "risk"})
        found == SelectSeq(sents,
                    LAMBDA s : AnyKeyword(Lower(s), risk_keywords))
    IN  Take([i \in 1..Len(found) |-> Strip(found[i])], 3)

\* app.py's _generate_stats
app_generate_stats(ds, as) ==
    [total_decisions |-> Len(ds),
     high_impact_decisions |->
        Len(SelectSeq(ds, LAMBDA d : d.impact_level = "High")),
     total_actions |-> Len(as),
     critical_actions |->
        Len(SelectSeq(as, LAMBDA a : a.priority = "critical")),
     avg_confidence |-> IF ds # <<>> THEN AverageConfidence(ds) ELSE 0]

\* extract_advanced_summary(transcript), one action per statement.
AppEnter(x) ==
    /\ analyzer' = "app"
    /\ pc' = "preprocess"
    /\ transcript' = x
    /\ result' = NoResult
    /\ raised' = "none"
    /\ sentences' = <<>>
    /\ decisions' = <<>>
    /\ action_items' = <<>>
    /\ metadata' = [next_meeting |-> NOT_SPECIFIED, attendees |-> <<>>,
                    meeting_length |-> 0]
    /\ sentiment' = ZeroScores
    /\ risks' = <<>>
    /\ stats' = <<>>
    /\ UNCHANGED <<hashSeed, fault, llmLocals, previous, loopLocals>>

AppAt(label) == analyzer = "app" /\ pc = label

AppPreprocess ==
    /\ AppAt("preprocess")
    /\ sentences' = _preprocess_text(transcript.text)
    /\ pc' = "decisions"
    /\ UNCHANGED <<hashSeed, fault, analyzer, transcript, decisions,
                   action_items, metadata, sentiment, risks, stats,
                   llmLocals, result, raised, previous, loopLocals>>

AppDecisions ==
    /\ AppAt("decisions")
    /\ decisions' = _extract_decisions_advanced(hashSeed, sentences)
    /\ pc' = "actions"
    /\ UNCHANGED <<hashSeed, fault, analyzer, transcript, sentences,
                   action_items, metadata, sentiment, risks, stats,
                   llmLocals, result, raised, previous, loopLocals>>

AppActions ==
    /\ AppAt("actions")
    /\ action_items' = _extract_actions_advanced(sentences)
    /\ pc' = "metadata"
    /\ UNCHANGED <<hashSeed, fault, analyzer, transcript, sentences,
                   decisions, metadata, sentiment, risks, stats,
                   llmLocals, result, raised, previous, loopLocals>>

AppMetadata ==
    /\ AppAt("metadata")
    /\ metadata' = app_extract_metadata(hashSeed, sentences)
    /\ pc' = "sentiment"
    /\ UNCHANGED <<hashSeed, fault, analyzer, transcript, sentences,
                   decisions, action_items, sentiment, risks, stats,
                   llmLocals, result, raised, previous, loopLocals>>

AppSentiment ==
    /\ AppAt("sentiment")
    /\ sentiment' = app_analyze_sentiment(sentences)
    /\ pc' = "risks"
    /\ UNCHANGED <<hashSeed, fault, analyzer, transcript, sentences,
                   decisions, action_items, metadata, risks, stats,
                   llmLocals, result, raised, previous, loopLocals>>

AppRisks ==
    /\ AppAt("risks")
    /\ risks' = app_assess_risks(sentences)
    /\ pc' = "return"
    /\ UNCHANGED <<hashSeed, fault, analyzer, transcript, sentences,
                   decisions, action_items, metadata, sentiment, stats,
                   llmLocals, result, raised, previous, loopLocals>>

\* return {...}: summary_stats is computed in the dict display.
AppReturn ==
    /\ AppAt("return")
    /\ stats' = app_generate_stats(decisions, action_items)
    /\ result' = MeetingAnalysis(decisions, action_items, metadata,
                                 sentiment, risks, stats')
    /\ pc' = "done"
    /\ UNCHANGED <<hashSeed, fault, analyzer, transcript, sentences,
                   decisions, action_items, metadata, sentiment, risks,
                   llmLocals, raised, previous, loopLocals>>

\* The transcripts handed to extract_advanced_summary.
AppTexts == Texts(MaxSegments) \cup {MEETINGS}

CallApp ==
    /\ pc = "idle"
    /\ \E t \in AppTexts : AppEnter(Str(t))

NextApp ==
    \/ CallApp
    \/ AppPreprocess
    \/ AppDecisions
    \/ AppActions
    \/ AppMetadata
    \/ AppSentiment
    \/ AppRisks
    \/ AppReturn

SpecApp == Init /\ [][NextApp]_vars

----------------------------------------------------------------------------
(* SecurityUtils.sanitize_html and EmailGenerator.generate_executive_email. *)
(* The email is the list of the values put into the template, each with    *)
(* the field it comes from, its text before and its text in the HTML.      *)

\* html.escape(c, quote=True) on one character
EscapeChar(c) ==
    CASE c = "&" -> "&amp;"
      [] c = "<" -> "&lt;"
      [] c = ">" -> "&gt;"
      [] c = "\"" -> "&quot;"
      [] c = "'" -> "&#x27;"
      [] OTHER -> c

\* html.escape(s, quote=True)
RECURSIVE html_escape(_)
html_escape(s) ==
    IF Len(s) <= 1 THEN EscapeChar(s)
    ELSE html_escape(SubSeq(s, 1, Len(s) \div 2))
         \o html_escape(SubSeq(s, Len(s) \div 2 + 1, Len(s)))

\* SecurityUtils.sanitize_html on a str
sanitize_html(text) == html_escape(text)

\* The str a list of tokens stands for.
RECURSIVE Chars(_)
Chars(tokens) ==
    IF Len(tokens) = 0 THEN ""
    ELSE IF Len(tokens) = 1 THEN tokens[1]
    ELSE Chars(SubSeq(tokens, 1, Len(tokens) \div 2))
         \o Chars(SubSeq(tokens, Len(tokens) \div 2 + 1, Len(tokens)))

\* str() of a float given in tenths: 333 is "33.3", 0 is "0.0".
TenthsRepr(t) == ToString(t \div 10) \o "." \o ToString(t % 10)

\* What the generator reads from an analysis of EnterpriseAnalyzer, as the
\* Python values they are.
PatternAnalysisValues(analysis) ==
    [decisions |->
        [i \in 1..Len(analysis.decisions) |->
            [content |-> Chars(analysis.decisions[i].content),
             impact_level |-> analysis.decisions[i].impact_level,
             stakeholders |-> analysis.decisions[i].stakeholders,
             confidence |-> analysis.decisions[i].confidence]],
     action_items |->
        [i \in 1..Len(analysis.action_items) |->
            [assignee |-> Chars(analysis.action_items[i].assignee),
             task |-> Chars(analysis.action_items[i].task),
             priority |-> analysis.action_items[i].priority,
             deadline |-> Chars(analysis.action_items[i].deadline),
             confidence |-> analysis.action_items[i].confidence]],
     metadata |->
        PyDict(<<Item("next_meeting",
                      PyStr(Chars(analysis.metadata.next_meeting))),
                 Item("attendees",
                      PyList([i \in 1..Len(analysis.metadata.attendees) |->
                                PyStr(analysis.metadata.attendees[i])])),
                 Item("meeting_length",
                      PyInt(analysis.metadata.meeting_length))>>),
     \* the percentages are floats, given here by their str()
     sentiment |->
        PyDict(<<Item("positive",
                      PyStr(TenthsRepr(analysis.sentiment.positive))),
                 Item("negative",
                      PyStr(TenthsRepr(analysis.sentiment.negative))),
                 Item("neutral",
                      PyStr(TenthsRepr(analysis.sentiment.neutral)))>>),
     summary_stats |->
        PyDict(<<Item("total_decisions",
                      PyInt(analysis.summary_stats.total_decisions)),
                 Item("high_impact_decisions",
                      PyInt(analysis.summary_stats.high_impact_decisions)),
                 Item("total_actions",
                      PyInt(analysis.summary_stats.total_actions)),
                 Item("critical_actions",
                      PyInt(analysis.summary_stats.critical_actions)),
                 Item("avg_confidence",
                      IF analysis.decisions = <<>> THEN PyInt(0)
                      ELSE PyFloat(analysis.summary_stats.avg_confidence))>>)]

\* An analysis of LLMAnalyzer holds Python values already.
LLMAnalysisValues(analysis) ==
    [decisions |-> analysis.decisions,
     action_items |-> analysis.action_items,
     metadata |-> analysis.metadata,
     sentiment |-> analysis.sentiment,
     summary_stats |-> analysis.summary_stats]

DEFAULT_EMAIL_SENTIMENT ==
    PyDict(<<Item("positive", PyInt(0)), Item("negative", PyInt(0)),
             Item("neutral", PyInt(100))>>)
DEFAULT_EMAIL_STATS ==
    PyDict(<<Item("total_decisions", PyInt(0)),
             Item("total_actions", PyInt(0)),
             Item("high_impact_decisions", PyInt(0)),
             Item("avg_confidence", PyInt(0))>>)

\* x or default, for a dict x
DictOrDefault(d, default) == IF d.v = <<>> THEN default ELSE d

\* A value put into the template after sanitize_html, and one put in as
\* it is.
Sanitized(field, raw) ==
    [field |-> field, raw |-> raw, text |-> sanitize_html(raw)]
Embedded(field, raw) == [field |-> field, raw |-> raw, text |-> raw]

\* The values of one entry of decision_items (lines 36-47).
DecisionItemValues(d) ==
    <<Sanitized("content", d.content),
      Sanitized("impact_level", d.impact_level),
      Embedded("confidence", FloatRepr(d.confidence))>>
    \o [i \in 1..Len(d.stakeholders) |->
           Sanitized("stakeholders", d.stakeholders[i])]

\* The values of one entry of action_items (lines 54-64).
ActionItemValues(a) ==
    <<Sanitized("assignee", a.assignee),
      Sanitized("task", a.task),
      Embedded("priority", a.priority),
      Embedded("priority", a.priority),
      Sanitized("deadline", a.deadline),
      Embedded("confidence", FloatRepr(a.confidence))>>

\* len(x) raises TypeError unless x is a list, a str or a dict.
HasLen(value) == value.ty \in {"list", "str", "dict"}

\* The email: the summary, or the fallback HTML of the except block with
\* the message of the TypeError that len(metadata.get('attendees', []))
\* raised.
generate_executive_email(values, meeting_title) ==
    LET sentiment_ == DictOrDefault(values.sentiment, DEFAULT_EMAIL_SENTIMENT)
        stats_ == DictOrDefault(values.summary_stats, DEFAULT_EMAIL_STATS)
        attendees == Get(values.metadata, "attendees", PyList(<<>>))
        stat(key) == Sanitized(key, PyToStr(Get(stats_, key, PyInt(0))))
    IN  IF ~HasLen(attendees)
        THEN [kind |-> "error",
              values |->
                 <<Sanitized("error",
                     "object of type '" \o attendees.ty
                     \o "' has no len()")>>]
        ELSE [kind |-> "summary",
              values |->
                 <<Sanitized("meeting_title", meeting_title),
                   stat("total_decisions"), stat("total_actions"),
                   stat("high_impact_decisions"), stat("avg_confidence")>>
                 \o Flatten([i \in 1..Len(values.decisions) |->
                                DecisionItemValues(values.decisions[i])])
                 \o Flatten([i \in 1..Len(values.action_items) |->
                                ActionItemValues(values.action_items[i])])
                 \o <<Sanitized("positive",
                         PyToStr(Get(sentiment_, "positive", PyInt(0)))),
                      Sanitized("negative",
                         PyToStr(Get(sentiment_, "negative", PyInt(0)))),
                      Sanitized("neutral",
                         PyToStr(Get(sentiment_, "neutral", PyInt(100)))),
                      Sanitized("next_meeting",
                         PyToStr(Get(values.metadata, "next_meeting",
                                     PyStr("Not specified")))),
                      Sanitized("attendees_count",
                         ToString(Len(attendees.v)))>>]

----------------------------------------------------------------------------
(* main() of main.py, the branch taken when a file was uploaded: read,     *)
(* validate, and on the button build the analyzer and call it.             *)

UPLOAD_WARNING_LENGTH == 100000
MIN_API_KEY_LENGTH == 20

\* c repeated n times.
RECURSIVE Repeated(_, _)
Repeated(c, n) ==
    IF n = 0 THEN ""
    ELSE IF n = 1 THEN c
    ELSE LET half == Repeated(c, n \div 2)
         IN  IF n % 2 = 0 THEN half \o half ELSE half \o half \o c

\* Uploads longer than the 50KB limit of LLMAnalyzer, and longer than the
\* 100KB mark of main().
OVER_50KB == PLAT \o <<" ", Repeated("x", MAX_TRANSCRIPT_LENGTH + 1), ".">>
OVER_100KB == SARAH \o <<" ", Repeated("x", UPLOAD_WARNING_LENGTH + 1), ".">>

\* What uploaded_file.read() can give: UTF-8 text, or bytes that are none.
UploadedFiles ==
    {[encoding |-> "utf-8", text |-> t] :
        t \in {<<" ", "\n">>, PLAT, SARAH, BOTH, OVER_50KB, OVER_100KB}}
    \cup {[encoding |-> "latin-1", text |-> PLAT]}

Methods == {"Pattern-Based (Fast)", "Gemini-Powered (Advanced)"}
ApiKeys == {"", "AIshort", "sk-0123456789abcdefghij",
            "AIzaSy0123456789abcdefghij"}

\* What the sidebar's "Meeting Title" field can hold: its default, and a
\* title with markup in it.
MeetingTitles == {"10 Academy Executive Meeting", "Q&A <Sync>"}

IsGemini(method) == method = "Gemini-Powered (Advanced)"

\* config = StreamlitUI.render_sidebar();
\* uploaded_file = StreamlitUI.render_file_upload(); if uploaded_file:
MainStart ==
    /\ pc = "idle" /\ ui.at = "none"
    /\ \E file \in UploadedFiles, method \in Methods, key \in ApiKeys,
          title \in MeetingTitles :
          ui' = [at |-> "read", file |-> file, transcript_text |-> <<>>,
                 method |-> method,
                 api_key |-> IF IsGemini(method) THEN key ELSE "",
                 meeting_title |-> title, shown |-> {},
                 html_email |-> NoEmail]
    /\ UNCHANGED <<hashSeed, fault, analyzer, pc, transcript, patternLocals,
                   llmLocals, result, raised, previous, scan_sentence,
                   sentiment_scores, scanned, progress>>

\* st.error(...); return
Stop(message) ==
    ui' = [ui EXCEPT !.at = "stopped", !.shown = @ \cup {message}]

\* transcript_text = uploaded_file.read().decode('utf-8')
MainRead ==
    /\ ui.at = "read"
    /\ IF ui.file.encoding = "utf-8"
       THEN ui' = [ui EXCEPT !.at = "validate",
                             !.transcript_text = ui.file.text]
       ELSE Stop("File encoding error")
    /\ UNCHANGED <<hashSeed, fault, analyzer, pc, transcript, patternLocals,
                   llmLocals, result, raised, previous, scan_sentence,
                   sentiment_scores, scanned, progress>>

\* if not transcript_text.strip(): st.error(...); return
\* if len(transcript_text) > 100000: st.warning(...)
MainValidate ==
    /\ ui.at = "validate"
    /\ IF Strip(ui.transcript_text) = <<>>
       THEN Stop("The uploaded file appears to be empty")
       ELSE ui' = [ui EXCEPT
                     !.at = "button",
                     !.shown =
                        IF StrLen(ui.transcript_text) > UPLOAD_WARNING_LENGTH
                        THEN @ \cup {"Large file detected"} ELSE @]
    /\ UNCHANGED <<hashSeed, fault, analyzer, pc, transcript, patternLocals,
                   llmLocals, result, raised, previous, scan_sentence,
                   sentiment_scores, scanned, progress>>

\* if len(config.api_key.strip()) < 20 or not config.api_key.startswith('AI')
BadKeyFormat(key) ==
    Len(key) < MIN_API_KEY_LENGTH \/ SubSeq(key, 1, 2) # "AI"

\* The button: the API key checks, the choice of the analyzer (LLMAnalyzer's
\* constructor raises ImportError when the Gemini packages are missing) and
\* analysis = analyzer.analyze_meeting(transcript_text) entered.
MainGenerate ==
    /\ ui.at = "button"
    /\ \E gemini_available \in BOOLEAN :
          IF IsGemini(ui.method) /\ ui.api_key = ""
          THEN /\ Stop("Please enter your Google Gemini API key")
               /\ UNCHANGED <<analyzer, pc, transcript, result, raised,
                              invocations, remote>>
          ELSE IF IsGemini(ui.method) /\ BadKeyFormat(ui.api_key)
          THEN /\ Stop("Invalid API key format")
               /\ UNCHANGED <<analyzer, pc, transcript, result, raised,
                              invocations, remote>>
          ELSE IF IsGemini(ui.method) /\ ~gemini_available
          THEN /\ Stop("Gemini Analyzer Error")
               /\ UNCHANGED <<analyzer, pc, transcript, result, raised,
                              invocations, remote>>
          ELSE /\ ui' = [ui EXCEPT !.at = "analyzing"]
               /\ analyzer' = IF IsGemini(ui.method) THEN "llm" ELSE "pattern"
               /\ pc' = IF IsGemini(ui.method) THEN "validate"
                        ELSE "preprocess"
               /\ transcript' = Str(ui.transcript_text)
               /\ result' = NoResult
               /\ raised' = "none"
               /\ invocations' = 0
               /\ remote' = NoRemote
    /\ UNCHANGED <<hashSeed, fault, patternLocals, prompt, response_text,
                   parsed, previous, scan_sentence, sentiment_scores,
                   scanned, progress>>

\* except Exception as e: st.error(f"Analysis failed: ..."); return
\* otherwise the analysis is at hand.
MainAnalysisDone ==
    /\ ui.at = "analyzing" /\ pc = "done"
    /\ IF raised # "none"
       THEN Stop("Analysis failed")
       ELSE ui' = [ui EXCEPT !.at = "analyzed"]
    /\ UNCHANGED <<hashSeed, fault, analyzer, pc, transcript, patternLocals,
                   llmLocals, result, raised, previous, scan_sentence,
                   sentiment_scores, scanned, progress>>

\* html_email = email_generator.generate_executive_email(analysis,
\* config.meeting_title); the generator catches what it raises.
MainEmail ==
    /\ ui.at = "analyzed"
    /\ ui' = [ui EXCEPT
                !.at = "emailed",
                !.html_email =
                   generate_executive_email(
                      IF analyzer = "llm" THEN LLMAnalysisValues(result)
                      ELSE PatternAnalysisValues(result),
                      ui.meeting_title)]
    /\ UNCHANGED <<hashSeed, fault, analyzer, pc, transcript, patternLocals,
                   llmLocals, result, raised, previous, scan_sentence,
                   sentiment_scores, scanned, progress>>

NextUpload ==
    \/ MainStart
    \/ MainRead
    \/ MainValidate
    \/ MainGenerate
    \/ PatternStep
    \/ LLMStep
    \/ MainAnalysisDone
    \/ MainEmail

SpecUpload == Init /\ [][NextUpload]_vars

----------------------------------------------------------------------------
(* _analyze_sentiment on its own, one action per pass of its outer loop. *)

\* Sentences preprocess_text can hand over: those of the paragraphs, and one
\* that holds a positive keyword only.
ScanSentences ==
    UNION {Range(preprocess_text(Paragraphs[i])) : i \in 1..Len(Paragraphs)}
    \cup {<<"Great", " ", "news", " ", "with", " ", "Judy">>}

InitSentiment == Init /\ hashSeed = 1

\* sentiment_scores = {'positive': 0, 'negative': 0, 'neutral': 0}
EnterSentiment ==
    /\ pc = "idle"
    /\ analyzer' = "sentiment"
    /\ pc' = "scan"
    /\ sentiment_scores' = ZeroScores
    /\ scanned' = 0
    /\ UNCHANGED <<hashSeed, fault, transcript, patternLocals, llmLocals,
                   result, raised, previous, progress, ui, scan_sentence>>

\* for sentence in sentences: ... sentiment_scores[sentiment] += 1
ScanSentence ==
    /\ analyzer = "sentiment" /\ pc = "scan"
    /\ scanned < MaxScanned
    /\ \E s \in ScanSentences :
          /\ scan_sentence' = s
          /\ sentiment_scores' = ScoreSentence(sentiment_scores, s)
    /\ scanned' = scanned + 1
    /\ UNCHANGED <<hashSeed, fault, analyzer, pc, transcript, patternLocals,
                   llmLocals, result, raised, previous, progress, ui>>

\* total = sum(...) or 1; return {k: round(v/total * 100, 1) ...}
FinishSentiment ==
    /\ analyzer = "sentiment" /\ pc = "scan"
    /\ sentiment' = Percentages(sentiment_scores)
    /\ pc' = "done"
    /\ UNCHANGED <<hashSeed, fault, analyzer, transcript, sentences, decisions,
                   action_items, metadata, risks, stats, llmLocals, result,
                   raised, previous, loopLocals>>

NextSentiment ==
    \/ EnterSentiment
    \/ ScanSentence
    \/ FinishSentiment

SpecSentiment == InitSentiment /\ [][NextSentiment]_vars

----------------------------------------------------------------------------
(* Properties of EnterpriseAnalyzer.analyze_meeting. *)

Returned == pc = "done" /\ raised = "none"
PatternReturned == analyzer = "pattern" /\ Returned
NeutralOnly == [b \in Buckets |-> IF b = "neutral" THEN 1000 ELSE 0]
ZeroStats ==
    [total_decisions |-> 0, high_impact_decisions |-> 0, total_actions |-> 0,
     critical_actions |-> 0, avg_confidence |-> 0]
SentimentSum(sn) == sn["positive"] + sn["negative"] + sn["neutral"]

\* C1: for the empty transcript, and any transcript that is empty after
\* trimming, analyze_meeting returns no decisions, no action items, the
\* sentiment positive 0, negative 0, neutral 100, summary_stats all 0, and
\* exactly one risks entry.
C1_EmptyTranscriptGivesDefaults ==
    (/\ analyzer = "pattern" /\ pc = "done"
     /\ transcript.kind = "str" /\ Strip(transcript.text) = <<>>)
    => /\ raised = "none"
       /\ result.decisions = <<>>
       /\ result.action_items = <<>>
       /\ result.sentiment = NeutralOnly
       /\ result.summary_stats = ZeroStats
       /\ Len(result.risks) = 1

\* C2: called with a transcript that is no string (None, a number),
\* analyze_meeting propagates no exception and returns an all-default
\* MeetingAnalysis whose risks hold an entry describing the failure.
C2_NonStringGivesDefaults ==
    (analyzer = "pattern" /\ pc = "done" /\ transcript.kind # "str")
    => /\ raised = "none"
       /\ result.decisions = <<>>
       /\ result.action_items = <<>>
       /\ result.sentiment = NeutralOnly
       /\ result.summary_stats = ZeroStats
       /\ Len(result.risks) >= 1

\* C3: every result of analyze_meeting has at most 5 decisions, at most 8
\* action items, at most 3 risks and at most 10 attendees, however many
\* sentences match.
C3_CapsHold ==
    PatternReturned
    => /\ Len(result.decisions) <= 5
       /\ Len(result.action_items) <= 8
       /\ Len(result.risks) <= 3
       /\ Len(result.metadata.attendees) <= 10

\* A call has returned for a transcript in which more than five decisions and
\* more than eight action items were collected before the cut.
C3_Witness ==
    /\ PatternReturned
    /\ Len(CollectedDecisions(hashSeed, sentences)) > 5
    /\ Len(CollectedActions(sentences)) > 8
    /\ Len(result.decisions) = 5
    /\ Len(result.action_items) = 8

\* C4: for every input the three sentiment percentages of the result sum to
\* 100 within 0.1, also when there is no sentence or no sentiment keyword.
C4_SentimentSumsTo100 ==
    PatternReturned
    => SentimentSum(result.sentiment) \in 999..1001

\* C5: when no sentence holds a keyword of any sentiment bucket (counter
\* total 0), _analyze_sentiment returns positive 0, negative 0, neutral 100.
C5_ZeroTotalIsNeutral ==
    (/\ analyzer = "pattern" /\ pc \in {"risks", "stats", "return"}
     /\ SentimentSum(ScoreAll(ZeroScores, sentences)) = 0)
    => sentiment = NeutralOnly

\* The tenths q are a nearest tenth of a percent to count / total * 100.
NearestTenth(q, count, total) ==
    /\ 2 * (q * total - 1000 * count) <= total
    /\ 2 * (1000 * count - q * total) <= total

SentimentHit(text, b) ==
    \E keyword \in BucketKeywords(b) : ContainsKeyword(Lower(text), keyword)

\* C6: when the counter total is at least 1, each percentage is
\* counter / total * 100 rounded to one decimal and the three percentages sum
\* to 99.9, 100.0 or 100.1; and one pass of the loop adds exactly one to each
\* bucket of which the sentence holds a keyword, and nothing to the others.
C6_RoundedPercentages ==
    /\ []((/\ analyzer = "sentiment" /\ pc = "done"
           /\ SentimentSum(sentiment_scores) >= 1)
          => /\ \A b \in Buckets :
                   NearestTenth(sentiment[b], sentiment_scores[b],
                                SentimentSum(sentiment_scores))
             /\ SentimentSum(sentiment) \in {999, 1000, 1001})
    /\ [][scanned' = scanned + 1
          => \A b \in Buckets :
                sentiment_scores'[b] =
                    sentiment_scores[b]
                    + (IF SentimentHit(scan_sentence', b) THEN 1 ELSE 0)]_vars

\* The loop has ended on the counters 5, 5, 6 (two percentages lie halfway
\* between two tenths) and its last sentence held keywords of all buckets.
C6_Witness ==
    /\ analyzer = "sentiment" /\ pc = "done"
    /\ sentiment_scores =
         [b \in Buckets |-> IF b = "neutral" THEN 6 ELSE 5]
    /\ \A b \in Buckets : SentimentHit(scan_sentence, b)
    /\ SentimentSum(sentiment) = 999

METADATA_KEYS == {"next_meeting", "attendees", "meeting_length"}
SENTIMENT_KEYS == {"positive", "negative", "neutral"}
STATS_KEYS ==
    {"total_decisions", "high_impact_decisions", "total_actions",
     "critical_actions", "avg_confidence"}

\* The dict d of a returned analysis holds every key of keys, none as None.
Populated(d, keys) ==
    IF analyzer = "llm"
    THEN /\ d.ty = "dict"
         /\ keys \subseteq Keys(d)
         /\ \A k \in keys : GetItem(d, k).ty # "NoneType"
    ELSE keys \subseteq DOMAIN d

\* C8: every MeetingAnalysis either analyzer returns, the fallback results
\* included, is fully populated: metadata holds next_meeting, attendees and
\* meeting_length, sentiment holds positive, negative and neutral,
\* summary_stats holds its five counters, and none of them is null.
C8_FullyPopulated ==
    Returned
    => /\ Populated(result.metadata, METADATA_KEYS)
       /\ Populated(result.sentiment, SENTIMENT_KEYS)
       /\ Populated(result.summary_stats, STATS_KEYS)

\* The result structure the prompt asks for: an object with the six
\* members, each of its container type.
ExpectedStructure(value) ==
    /\ value.ty = "dict"
    /\ \A k \in {"decisions", "action_items", "risks"} :
          HasKey(value, k) /\ GetItem(value, k).ty = "list"
    /\ \A k \in {"metadata", "sentiment", "summary_stats"} :
          HasKey(value, k) /\ GetItem(value, k).ty = "dict"

\* The text json.loads is given for the content the remote call returned.
CleanedText(content) ==
    LET text == Strip(content.v)
    IN  IF StartsWithJsonFence(text) THEN RemoveFences(text) ELSE text

\* The remote call threw, or what it returned is malformed.
Malformed(behaviour) ==
    \/ behaviour.outcome = "raise"
    \/ behaviour.response # "message"
    \/ behaviour.content.ty # "str"
    \/ ~json_loads(CleanedText(behaviour.content)).ok
    \/ ~ExpectedStructure(json_loads(CleanedText(behaviour.content)).val)

ERROR_PREFIX == "Analysis Error: "
IsFallback(r) ==
    /\ r.decisions = <<>>
    /\ r.action_items = <<>>
    /\ Len(r.risks) = 1
    /\ Len(r.risks[1]) <= Len(ERROR_PREFIX) + MAX_ERROR_LENGTH
    /\ SubSeq(r.risks[1], 1, Len(ERROR_PREFIX)) = ERROR_PREFIX
    /\ r.metadata = FALLBACK_METADATA
    /\ r.sentiment = FALLBACK_SENTIMENT
    /\ r.summary_stats = FALLBACK_STATS

\* C9: whenever the remote call of LLMAnalyzer.analyze_meeting throws or
\* returns malformed data (unreadable content, text that is no JSON, JSON
\* that is no object, an object without the expected structure), the
\* analysis returned is the all-default fallback with exactly one risks
\* entry, "Analysis Error: ..." with at most 200 characters of error text.
C9_MalformedGivesFallback ==
    (analyzer = "llm" /\ Returned /\ invocations = 1 /\ Malformed(remote))
    => IsFallback(result)

\* C10: for every str transcript, analyze_meeting of either analyzer ends
\* by returning a MeetingAnalysis and never raises to the caller, whatever
\* the remote call does.
C10_StringNeverRaises ==
    (pc = "done" /\ transcript.kind = "str") => raised = "none"

IMPACT_LEVELS == {"High", "Medium", "Low"}
PRIORITIES == {"critical", "high", "medium", "low"}

\* C11: an analysis LLMAnalyzer.analyze_meeting returns obeys the
\* constraints of the pattern engine whatever JSON the remote service
\* returns: at most 5 decisions, 8 action items and 3 risks, at most 3
\* stakeholders per decision, impact levels High/Medium/Low, priorities
\* critical/high/medium/low, and every confidence in (0, 1].
C11_LLMObeysConstraints ==
    (analyzer = "llm" /\ Returned)
    => /\ Len(result.decisions) <= MAX_DECISIONS
       /\ Len(result.action_items) <= MAX_ACTIONS
       /\ Len(result.risks) <= MAX_RISKS
       /\ \A i \in 1..Len(result.decisions) :
             /\ Len(result.decisions[i].stakeholders) <= MAX_NAMES
             /\ result.decisions[i].impact_level \in IMPACT_LEVELS
             /\ result.decisions[i].confidence \in 1..100
       /\ \A i \in 1..Len(result.action_items) :
             /\ result.action_items[i].priority \in PRIORITIES
             /\ result.action_items[i].confidence \in 1..100

\* What an extractor leaves when it has nothing to report.
DefaultOutput ==
    [decisions |-> <<>>, action_items |-> <<>>,
     metadata |-> [next_meeting |-> NOT_SPECIFIED, attendees |-> <<>>,
                   meeting_length |-> 0],
     sentiment |-> NeutralOnly, risks |-> <<>>]

\* What the extractors return for the sentences of a transcript.
ExtractorOutput(seed, sents) ==
    [decisions |-> _extract_decisions(seed, sents),
     action_items |-> _extract_actions(sents),
     metadata |-> _extract_metadata(seed, sents),
     sentiment |-> _analyze_sentiment(sents),
     risks |-> _assess_risks(sents)]

\* C12: the five extractors of EnterpriseAnalyzer.analyze_meeting are
\* isolated from each other: when one of them fails, the call does not
\* abort, the failed extractor's output is replaced by its default and the
\* outputs of the other extractors are returned.
C12_ExtractorsIsolated ==
    (analyzer = "pattern" /\ pc = "done" /\ transcript.kind = "str")
    => /\ raised = "none"
       /\ \A e \in Extractors :
             result[e] =
                IF e = fault THEN DefaultOutput[e]
                ELSE ExtractorOutput(hashSeed,
                        preprocess_text(transcript.text))[e]

\* Some keyword of the named priority bucket occurs in the lowercased
\* sentence.
HitsBucket(sentence, name) ==
    \E k \in 1..Len(PRIORITY_KEYWORDS) :
        /\ PRIORITY_KEYWORDS[k].name = name
        /\ \E keyword \in PRIORITY_KEYWORDS[k].keywords :
              ContainsKeyword(Lower(sentence), keyword)

FirstBucket(sentence) ==
    IF HitsBucket(sentence, "critical") THEN "critical"
    ELSE IF HitsBucket(sentence, "high") THEN "high"
    ELSE IF HitsBucket(sentence, "medium") THEN "medium"
    ELSE IF HitsBucket(sentence, "low") THEN "low"
    ELSE "medium"

\* C13: _assess_priority tests the buckets in the order critical, high,
\* medium, low and returns the first one with a keyword in the lowercased
\* sentence, whatever other buckets match; no match gives medium. So the
\* priority of every ActionItem is one of critical, high, medium, low, and
\* the item a pass of _extract_actions appends has the first bucket of its
\* sentence.
C13_FirstBucketWins ==
    /\ [](analyzer = "extract"
          => /\ \A i \in 1..Len(sentences) :
                   _assess_priority(sentences[i]) = FirstBucket(sentences[i])
             /\ \A i \in 1..Len(action_items) :
                   action_items[i].priority \in PRIORITIES)
    /\ [][(analyzer = "extract" /\ pc = "action_loop"
           /\ scanned' = scanned + 1
           /\ Len(action_items') > Len(action_items))
          => Last(action_items').priority = FirstBucket(scan_sentence')]_vars

\* A pass has appended an item for a sentence that holds 'urgent' and
\* 'should': its priority is critical.
C13_Witness ==
    /\ analyzer = "extract" /\ pc = "action_loop" /\ scanned > 0
    /\ action_items # <<>>
    /\ HitsBucket(scan_sentence, "critical")
    /\ HitsBucket(scan_sentence, "medium")
    /\ ~HitsBucket(scan_sentence, "high")
    /\ Last(action_items).priority = "critical"

\* Record j comes before record i in a stable descending sort by keys.
Precedes(keys, j, i) ==
    keys[j] > keys[i] \/ (keys[j] = keys[i] /\ j < i)

Rank(keys, i) == Cardinality({j \in 1..Len(keys) : Precedes(keys, j, i)})

\* returned holds the first cap records of the stable descending sort of
\* collected by keys.
StablePrefix(collected, keys, returned, cap) ==
    LET kept == {i \in 1..Len(collected) : Rank(keys, i) < cap}
    IN  /\ Len(returned) = Cardinality(kept)
        /\ \A i \in kept : returned[Rank(keys, i) + 1] = collected[i]

Confidences(items) == [i \in 1..Len(items) |-> items[i].confidence]

\* C14: the list _extract_decisions returns is the first 5 records of a
\* stable sort, by confidence descending, of the collected Decisions:
\* confidences never increase along it, records of equal confidence keep
\* their discovery order, and no dropped record has a higher confidence than
\* a kept one.
C14_DecisionsStableSortedPrefix ==
    [][(analyzer = "extract" /\ pc = "decision_loop" /\ pc' = "action_loop")
       => /\ StablePrefix(decisions, Confidences(decisions), decisions',
                          MAX_DECISIONS)
          /\ Len(decisions') = Min({Len(decisions), MAX_DECISIONS})
          /\ \A p \in 1..(Len(decisions') - 1) :
                decisions'[p].confidence >= decisions'[p + 1].confidence
          /\ \A i \in 1..Len(decisions) :
                Rank(Confidences(decisions), i) >= MAX_DECISIONS
                => \A p \in 1..Len(decisions') :
                      decisions[i].confidence <= decisions'[p].confidence]_vars

\* _extract_decisions has returned 5 of more than 5 collected records, with
\* two different records of equal confidence next to each other.
C14_Witness ==
    /\ analyzer = "extract" /\ pc = "action_loop"
    /\ Len(CollectedDecisions(hashSeed, sentences)) > MAX_DECISIONS
    /\ Len(decisions) = MAX_DECISIONS
    /\ \E p \in 1..(Len(decisions) - 1) :
          /\ decisions[p].confidence = decisions[p + 1].confidence
          /\ decisions[p] # decisions[p + 1]

IsCritical(a) == a.priority = "critical"

\* Item j comes before item i in a stable sort by (is critical, confidence),
\* both descending.
ActionPrecedes(items, j, i) ==
    \/ IsCritical(items[j]) /\ ~IsCritical(items[i])
    \/ /\ IsCritical(items[j]) = IsCritical(items[i])
       /\ \/ items[j].confidence > items[i].confidence
          \/ items[j].confidence = items[i].confidence /\ j < i

ActionRank(items, i) ==
    Cardinality({j \in 1..Len(items) : ActionPrecedes(items, j, i)})

\* C15: the list _extract_actions returns is the first 8 items of a stable
\* sort of the collected ActionItems by (priority is critical, confidence),
\* both descending: every critical item precedes every other item,
\* confidence never increases inside either group, items of equal key keep
\* their discovery order, and a critical item is dropped only when all 8
\* kept items are critical.
C15_ActionsStableSortedPrefix ==
    [][(analyzer = "extract" /\ pc = "action_loop" /\ pc' = "done")
       => LET kept == {i \in 1..Len(action_items) :
                          ActionRank(action_items, i) < MAX_ACTIONS}
          IN  /\ Len(action_items') = Cardinality(kept)
              /\ Len(action_items') = Min({Len(action_items), MAX_ACTIONS})
              /\ \A i \in kept :
                    action_items'[ActionRank(action_items, i) + 1]
                       = action_items[i]
              /\ \A p \in 1..(Len(action_items') - 1) :
                    /\ IsCritical(action_items'[p + 1])
                       => IsCritical(action_items'[p])
                    /\ IsCritical(action_items'[p])
                          = IsCritical(action_items'[p + 1])
                       => action_items'[p].confidence
                             >= action_items'[p + 1].confidence
              /\ \A i \in 1..Len(action_items) :
                    (i \notin kept /\ IsCritical(action_items[i]))
                    => /\ Len(action_items') = MAX_ACTIONS
                       /\ \A p \in 1..MAX_ACTIONS :
                             IsCritical(action_items'[p])]_vars

\* _extract_actions has returned 8 critical items of a collected list that
\* held more critical items and, before them, an item that is not critical.
C15_Witness ==
    /\ analyzer = "extract" /\ pc = "done"
    /\ Len(action_items) = MAX_ACTIONS
    /\ \A p \in 1..MAX_ACTIONS : IsCritical(action_items[p])
    /\ LET found == CollectedActions(sentences)
       IN  /\ ~IsCritical(found[1])
           /\ found[1].confidence > action_items[MAX_ACTIONS].confidence
           /\ Cardinality({i \in 1..Len(found) : IsCritical(found[i])})
                 > MAX_ACTIONS

\* The confidences of the six decision patterns, in hundredths.
DecisionConfidence == <<90, 80, 85, 80, 95, 70>>

IMPLEMENT_THE_NEW_PLATFORM ==
    <<"Implement", " ", "the", " ", "new", " ", "platform", " ", "by", " ",
      "q2">>

\* C16: for 'We decided to implement the new platform by Q2.' the decisions
\* hold one whose content starts with 'Implement the new platform by q2'
\* and whose confidence is 0.9. In general a pass of _extract_decisions
\* whose pattern matches the lowercased sentence with a last group of more
\* than 15 characters (trimmed) appends exactly one Decision, its content
\* that group trimmed and capitalized, its confidence the pattern's; any
\* other pass appends nothing.
C16_DecisionPerLongMatch ==
    /\ []((analyzer = "extract" /\ pc \in {"action_loop", "done"}
           /\ transcript.text = PLAT)
          => \E p \in 1..Len(decisions) :
                /\ Len(decisions[p].content)
                      >= Len(IMPLEMENT_THE_NEW_PLATFORM)
                /\ SubSeq(decisions[p].content, 1,
                          Len(IMPLEMENT_THE_NEW_PLATFORM))
                      = IMPLEMENT_THE_NEW_PLATFORM
                /\ decisions[p].confidence = 90)
    /\ [][(analyzer = "extract" /\ pc = "decision_loop"
           /\ scanned' = scanned + 1)
          => LET k == PassPattern(scanned, Len(DECISION_PATTERNS))
                 match == re_search(DECISION_PATTERNS[k].re,
                                    Lower(scan_sentence'))
                 group == Strip(Last(match.groups))
             IN  IF match.ok /\ StrLen(group) > 15
                 THEN /\ Len(decisions') = Len(decisions) + 1
                      /\ SubSeq(decisions', 1, Len(decisions)) = decisions
                      /\ Last(decisions').content = Capitalize(group)
                      /\ Last(decisions').confidence = DecisionConfidence[k]
                 ELSE decisions' = decisions]_vars

\* The decisions of 'We decided to implement the new platform by Q2.' have
\* been returned: the one Decision of the first pattern.
C16_Witness ==
    /\ analyzer = "extract" /\ pc = "action_loop"
    /\ transcript.text = PLAT
    /\ Len(decisions) = 1
    /\ decisions[1].content = IMPLEMENT_THE_NEW_PLATFORM
    /\ decisions[1].confidence = 90


\* C17: for 'Sarah will lead the technical implementation and must have the
\* MVP ready by March 15th.' the action items hold one with assignee
\* 'Sarah', deadline 'March 15' and priority 'high'. In general a pass of
\* _extract_actions whose pattern matches the lowercased sentence appends
\* exactly one ActionItem: its assignee group 1 capitalized, its deadline
\* extract_deadline of the sentence, its priority _assess_priority of the
\* sentence; a pass without a match appends nothing.
C17_ActionPerMatch ==
    /\ []((analyzer = "extract" /\ pc = "done" /\ transcript.text = SARAH)
          => \E p \in 1..Len(action_items) :
                /\ action_items[p].assignee = <<"Sarah">>
                /\ action_items[p].deadline = <<"March", " ", "15">>
                /\ action_items[p].priority = "high")
    /\ [][(analyzer = "extract" /\ pc = "action_loop"
           /\ scanned' = scanned + 1)
          => LET k == PassPattern(scanned, Len(ACTION_PATTERNS))
                 match == re_search(ACTION_PATTERNS[k].re,
                                    Lower(scan_sentence'))
             IN  IF match.ok
                 THEN /\ Len(action_items') = Len(action_items) + 1
                      /\ SubSeq(action_items', 1, Len(action_items))
                            = action_items
                      /\ Last(action_items').assignee
                            = Capitalize(match.groups[1])
                      /\ Last(action_items').deadline
                            = extract_deadline(scan_sentence')
                      /\ Last(action_items').priority
                            = _assess_priority(scan_sentence')
                 ELSE action_items' = action_items]_vars

\* The action items of the Sarah sentence have been returned, and the one
\* of its first pattern is among them.
C17_Witness ==
    /\ analyzer = "extract" /\ pc = "done"
    /\ transcript.text = SARAH
    /\ Len(action_items) >= 1
    /\ action_items[1].assignee = <<"Sarah">>
    /\ action_items[1].deadline = <<"March", " ", "15">>
    /\ action_items[1].priority = "high"


\* The capture group of action pattern k that holds the clause following
\* the trigger phrase: group 3 of '(\w+) (will|should|needs to|must) (.+)',
\* group 2 of the other four.
TaskDescriptionGroup(k) == IF k = 1 THEN 3 ELSE 2

\* C18: the task of every ActionItem built by _extract_actions is the
\* trimmed task description of the sentence, the clause that follows the
\* trigger phrase, for matches of every one of the five action patterns,
\* the first one included.
C18_TaskIsDescription ==
    [][(analyzer = "extract" /\ pc = "action_loop"
        /\ scanned' = scanned + 1
        /\ Len(action_items') > Len(action_items))
       => LET k == PassPattern(scanned, Len(ACTION_PATTERNS))
              match == re_search(ACTION_PATTERNS[k].re,
                                 Lower(scan_sentence'))
          IN  Last(action_items').task
                 = Strip(match.groups[TaskDescriptionGroup(k)])]_vars


\* A transcript whose segments (the pieces between runs of . ! ?) all have
\* a trimmed length of at most 10 characters.
OnlyShortSegments(text) ==
    LET pieces == SplitSentences(CollapseWhitespace(text))
    IN  \A i \in 1..Len(pieces) : StrLen(Strip(pieces[i])) <= 10

\* C19: a transcript of segments of trimmed length <= 10 only gives an
\* empty sentence list, and analyze_meeting returns for it exactly the
\* MeetingAnalysis it returns for the empty transcript: no decisions, no
\* action items, no attendees, next_meeting 'Not specified', meeting_length
\* 0, zeroed stats, and the sentiment and risks of the empty transcript.
C19_ShortSegmentsGiveEmptyResult ==
    (analyzer = "pattern" /\ pc = "done" /\ transcript.kind = "str"
     /\ OnlyShortSegments(transcript.text))
    => /\ raised = "none"
       /\ sentences = <<>>
       /\ result = analyze_text(hashSeed, <<>>)
       /\ result.decisions = <<>>
       /\ result.action_items = <<>>
       /\ result.metadata.attendees = <<>>
       /\ result.metadata.next_meeting = NOT_SPECIFIED
       /\ result.metadata.meeting_length = 0
       /\ \A key \in DOMAIN result.summary_stats :
             result.summary_stats[key] = 0

\* analyze_meeting has returned for a transcript of two segments of exactly
\* 10 characters each ('Thanks all').
C19_Witness ==
    /\ analyzer = "pattern" /\ pc = "done" /\ raised = "none"
    /\ transcript.kind = "str" /\ transcript.text = FRAG \o FRAG
    /\ StrLen(Strip(SplitSentences(CollapseWhitespace(FRAG))[1])) = 10
    /\ result = analyze_text(hashSeed, <<>>)


\* Every capitalized-word name ([A-Z][a-z]+) of every sentence.
AllNames(sents) == UNION {Range(FindNames(sents[i])) : i \in 1..Len(sents)}

\* C20: metadata.attendees is the union of the capitalized names of all
\* sentences, capped at 10: when the transcript has at most 10 distinct
\* names every one of them is an attendee, the names of a sentence with
\* more than 3 distinct names included.
C20_AttendeesAreAllNames ==
    (analyzer = "pattern" /\ pc = "done" /\ raised = "none"
     /\ transcript.kind = "str"
     /\ Cardinality(AllNames(sentences)) <= 10)
    => Range(result.metadata.attendees) = AllNames(sentences)


\* C21: in every result of EnterpriseAnalyzer.analyze_meeting avg_confidence
\* is 0 when no decision is returned and otherwise the mean confidence of
\* the returned decisions rounded to 2 decimals, hence between 0.7 and
\* 0.95; the four counters count the returned lists, so total_decisions
\* <= 5, total_actions <= 8, high_impact_decisions <= total_decisions and
\* critical_actions <= total_actions.
C21_StatsOfReturnedLists ==
    (analyzer = "pattern" /\ pc = "done" /\ raised = "none")
    => LET st == result.summary_stats
           ds == result.decisions
           as == result.action_items
       IN  /\ ds = <<>> => st.avg_confidence = 0
           /\ ds # <<>> =>
                /\ 2 * (Len(ds) * st.avg_confidence - SumConfidence(ds))
                      <= Len(ds)
                /\ 2 * (SumConfidence(ds) - Len(ds) * st.avg_confidence)
                      <= Len(ds)
                /\ st.avg_confidence >= 70 /\ st.avg_confidence <= 95
           /\ st.total_decisions = Len(ds) /\ st.total_decisions <= 5
           /\ st.total_actions = Len(as) /\ st.total_actions <= 8
           /\ st.high_impact_decisions
                 = Cardinality({i \in 1..Len(ds) :
                                   ds[i].impact_level = "High"})
           /\ st.critical_actions
                 = Cardinality({i \in 1..Len(as) :
                                   as[i].priority = "critical"})
           /\ st.high_impact_decisions <= st.total_decisions
           /\ st.critical_actions <= st.total_actions

\* A result with several decisions and action items whose mean confidence
\* is not a whole number of hundredths, so that it had to be rounded.
C21_Witness ==
    /\ analyzer = "pattern" /\ pc = "done" /\ raised = "none"
    /\ Len(result.decisions) >= 3 /\ Len(result.action_items) >= 3
    /\ SumConfidence(result.decisions) % Len(result.decisions) # 0
    /\ result.summary_stats.critical_actions >= 1
    /\ result.summary_stats.avg_confidence * Len(result.decisions)
          # SumConfidence(result.decisions)


\* What extractor e holds after n sentences, inside its loop.
AfterSentences(e, n) ==
    LET seen == SubSeq(sentences, 1, n)
    IN  CASE e = "decisions" -> CollectedDecisions(hashSeed, seen)
          [] e = "action_items" -> CollectedActions(seen)
          [] e = "metadata" -> MetadataLoop(hashSeed, seen, 1,
                                            NOT_SPECIFIED, {})
          [] e = "sentiment" -> ScoreAll(ZeroScores, seen)
          [] e = "risks" ->
                LET found == SelectSeq(seen, IsRisk)
                IN  [i \in 1..Len(found) |-> Strip(found[i])]

\* What extractor e holds at the moment.
Held(e) ==
    CASE e = "decisions" -> decisions
      [] e = "action_items" -> action_items
      [] e = "metadata" -> metadata
      [] e = "sentiment" -> sentiment_scores
      [] e = "risks" -> risks

\* C22: the five extractors share no mutable state. Each one only reads
\* the sentence list, which no step changes, and what it holds depends on
\* its own progress alone, so whatever the order and the interleaving of
\* their per-sentence steps the MeetingAnalysis is the one the sequential
\* analyze_meeting returns.
C22_InterleavingGivesSequentialResult ==
    /\ []((analyzer = "interleaved" /\ pc = "done")
          => result = analyze_text(hashSeed, transcript.text))
    /\ []((analyzer = "interleaved" /\ pc = "extracting")
          => \A e \in Extractors :
                ~progress[e].returned
                   => Held(e) = AfterSentences(e, progress[e].at))
    /\ [][(analyzer = "interleaved" /\ pc = "extracting")
          => sentences' = sentences]_vars

\* An order analyze_meeting never takes: the risks extractor has returned
\* its finding and the sentiment extractor is through, while the metadata
\* extractor is halfway and the decisions extractor has not started.
C22_Witness ==
    /\ analyzer = "interleaved" /\ pc = "extracting"
    /\ transcript.text = MIX
    /\ progress["risks"].returned /\ risks # <<>>
    /\ progress["sentiment"].returned
    /\ progress["metadata"].at = 1 /\ metadata.attendees # {}
    /\ progress["decisions"].at = 0
    /\ progress["action_items"].at = 0


\* C23: on every path from an uploaded transcript to an analyzer the text
\* the extraction works on is within the limit: a longer transcript has
\* been truncated before the pattern-based analyzer segments it or the
\* Gemini-powered analyzer puts it in its prompt. The limit is taken at its
\* largest, the 100KB mark of main(), and the marker the Gemini-powered
\* analyzer appends to a truncated transcript is not counted.
C23_UploadIsTruncated ==
    /\ (ui.at = "analyzing" /\ analyzer = "pattern" /\ pc # "preprocess")
          => \A i \in 1..Len(sentences) :
                StrLen(sentences[i]) <= UPLOAD_WARNING_LENGTH
    /\ (ui.at = "analyzing" /\ analyzer = "llm"
        /\ pc \notin {"validate", "done"})
          => StrLen(prompt) <= UPLOAD_WARNING_LENGTH + StrLen(TRUNCATED)


\* The segments of a text as it stands: its maximal runs of tokens other
\* than '.', '!' and '?'.
RawSegments(text) ==
    LET starts == {i \in 1..Len(text) :
                      /\ text[i] \notin Terminators
                      /\ (i = 1 \/ text[i - 1] \in Terminators)}
        end(i) == CHOOSE e \in i..Len(text) :
                      /\ \A j \in i..e : text[j] \notin Terminators
                      /\ (e = Len(text) \/ text[e + 1] \in Terminators)
        ordered == SelectSeq([i \in 1..Len(text) |-> i],
                             LAMBDA i : i \in starts)
    IN  [k \in 1..Len(ordered) |-> SubSeq(text, ordered[k], end(ordered[k]))]

\* A segment trimmed, every run of whitespace in it one space.
Normalized(segment) ==
    LET trimmed == Strip(segment)
        kept == SelectSeq([i \in 1..Len(trimmed) |->
                    IF trimmed[i] \notin Whitespace THEN trimmed[i]
                    ELSE IF trimmed[i - 1] \in Whitespace THEN ""
                    ELSE " "],
                  LAMBDA tok : tok # "")
    IN  kept

\* The normalized segments of more than 10 characters, in transcript order.
KeptSegments(text) ==
    LET all == RawSegments(text)
        normal == [k \in 1..Len(all) |-> Normalized(all[k])]
    IN  SelectSeq(normal, LAMBDA seg : StrLen(seg) > 10)

\* C24: preprocess_text returns the sentences in transcript order, each
\* equal to its own trimmed form, of at least 11 characters, without '.',
\* '!' or '?', without a newline or tab and without two whitespace
\* characters in a row; it drops the segments of trimmed length <= 10 and
\* nothing else, and leaves its argument as it was.
C24_PreprocessedSentences ==
    /\ []((analyzer = "pattern" /\ pc \notin {"idle", "preprocess"}
           /\ transcript.kind = "str" /\ raised = "none")
          => /\ sentences = KeptSegments(transcript.text)
             /\ \A i \in 1..Len(sentences) :
                   LET s == sentences[i]
                   IN  /\ Strip(s) = s
                       /\ StrLen(s) >= 11
                       /\ \A j \in 1..Len(s) :
                             /\ s[j] \notin Terminators
                             /\ s[j] \in Whitespace => s[j] = " "
                             /\ (j > 1 /\ s[j] \in Whitespace)
                                   => s[j - 1] \notin Whitespace)
    /\ [][(analyzer = "pattern" /\ pc = "preprocess")
          => transcript' = transcript]_vars

\* preprocess_text has returned for a transcript with a short segment, a
\* line break, a doubled space and a run of terminators: two of its four
\* segments are kept.
C24_Witness ==
    /\ analyzer = "pattern" /\ pc = "decisions"
    /\ transcript.kind = "str" /\ transcript.text = FRAG \o MIX
    /\ Len(RawSegments(transcript.text)) > Len(sentences)
    /\ Len(sentences) = 2
    /\ Len(sentences[1]) < Len(RawSegments(transcript.text)[2])


\* The sentences that match 'next meeting <rest>'.
NamingNextMeeting(sents) ==
    {i \in 1..Len(sents) :
        re_search(NEXT_MEETING_PATTERN, Lower(sents[i])).ok}

\* C25: metadata.next_meeting is 'Not specified' when no sentence matches
\* 'next meeting <rest>' and otherwise the remainder captured from the
\* last matching sentence in document order, trimmed and title-cased;
\* metadata.meeting_length is the number of sentences of the segmenter.
C25_LastNextMeetingWins ==
    (analyzer = "pattern" /\ pc = "done" /\ raised = "none")
    => LET naming == NamingNextMeeting(sentences)
           last == sentences[Max(naming)]
       IN  /\ naming = {}
                => result.metadata.next_meeting = <<"Not", " ", "specified">>
           /\ naming # {}
                => result.metadata.next_meeting
                      = Title(Strip(re_search(NEXT_MEETING_PATTERN,
                                              Lower(last)).groups[1]))
           /\ result.metadata.meeting_length = Len(sentences)
           /\ sentences = preprocess_text(transcript.text)

\* Two sentences name the next meeting, Monday and then Friday, a third
\* one follows, and the result says Friday.
C25_Witness ==
    /\ analyzer = "pattern" /\ pc = "done" /\ raised = "none"
    /\ transcript.text = MEETINGS
    /\ NamingNextMeeting(sentences) = {1, 2}
    /\ result.metadata.next_meeting = <<"Friday">>
    /\ result.metadata.meeting_length = 3


DEADLINE_KEYWORDS == <<"by", "due", "deadline", "before">>
Digits == {"0", "1", "2", "3", "4", "5", "6", "7", "8", "9"}

\* The leading digits of a token.
LeadingDigits(tok) ==
    LET n == Max({0} \cup {m \in 1..Len(tok) :
                     \A j \in 1..m : SubSeq(tok, j, j) \in Digits})
    IN  SubSeq(tok, 1, n)

EndsWithDay(tok) ==
    Len(tok) > 3 /\ SubSeq(tok, Len(tok) - 2, Len(tok)) = "day"

\* What '<keyword> (\w+day|\w+\s+\d+)' captures at token i of a lower-case
\* sentence, <<>> when it does not match there.
CapturedAt(text, i, keyword) ==
    IF i + 2 > Len(text) \/ text[i] # keyword \/ text[i + 1] # " "
       \/ ~IsWord(text[i + 2])
    THEN <<>>
    ELSE IF EndsWithDay(text[i + 2]) THEN <<text[i + 2]>>
    ELSE IF /\ i + 4 <= Len(text) /\ text[i + 3] = " "
            /\ LeadingDigits(text[i + 4]) # ""
    THEN <<text[i + 2], " ", LeadingDigits(text[i + 4])>>
    ELSE <<>>

\* The capture of the leftmost match of one keyword's pattern, or <<>>.
Captured(text, keyword) ==
    LET hits == {i \in 1..Len(text) : CapturedAt(text, i, keyword) # <<>>}
    IN  IF hits = {} THEN <<>> ELSE CapturedAt(text, Min(hits), keyword)

\* The deadline the claim describes for a sentence.
ExpectedDeadline(sentence) ==
    LET text == Lower(sentence)
        matching == {k \in 1..4 : Captured(text, DEADLINE_KEYWORDS[k]) # <<>>}
    IN  IF matching = {} THEN <<"Not", " ", "specified">>
        ELSE Title(Captured(text, DEADLINE_KEYWORDS[Min(matching)]))

\* A title-cased weekday or '<word> <digits>'.
DeadlineShaped(deadline) ==
    \/ /\ Len(deadline) = 1
       /\ EndsWithDay(deadline[1])
       /\ deadline[1] \in CapitalizedWords
    \/ /\ Len(deadline) = 3
       /\ deadline[1] \in CapitalizedWords
       /\ deadline[2] = " "
       /\ deadline[3] # "" /\ LeadingDigits(deadline[3]) = deadline[3]

\* C26: extract_deadline tries by, due, deadline, before in this order on
\* the lowercased sentence and returns, title-cased, what the first of them
\* that matches captures, also when a later keyword stands earlier in the
\* sentence; it returns 'Not specified' exactly when none matches. So the
\* deadline of every ActionItem is 'Not specified', a title-cased weekday
\* or '<word> <digits>'.
C26_FirstDeadlinePatternWins ==
    /\ [](analyzer = "extract"
          => /\ pc = "action_loop"
                => extract_deadline(scan_sentence)
                      = ExpectedDeadline(scan_sentence)
             /\ \A i \in 1..Len(action_items) :
                   \/ action_items[i].deadline = <<"Not", " ", "specified">>
                   \/ DeadlineShaped(action_items[i].deadline))
    /\ [][(analyzer = "extract" /\ pc = "action_loop"
           /\ scanned' = scanned + 1
           /\ Len(action_items') > Len(action_items))
          => Last(action_items').deadline
                = ExpectedDeadline(scan_sentence')]_vars

\* An ActionItem was built from 'Eve must pay the deposit due March 15th by
\* Friday': 'due' stands before 'by' and the deadline is Friday.
C26_Witness ==
    /\ analyzer = "extract" /\ pc = "action_loop"
    /\ transcript.text = DEADLINES
    /\ action_items # <<>>
    /\ Last(action_items).deadline = <<"Friday">>
    /\ Captured(Lower(scan_sentence), "due") = <<"march", " ", "15">>
    /\ Captured(Lower(scan_sentence), "by") = <<"friday">>


\* The characters html.escape replaces, and what it puts for them.
MarkupChars == {"<", ">", "\"", "'"}
Entities == {"&amp;", "&lt;", "&gt;", "&quot;", "&#x27;"}

\* A text as it is after HTML escaping: no markup character is left, and
\* every & begins an entity.
IsEscaped(text) ==
    \A i \in 1..Len(text) :
        /\ SubSeq(text, i, i) \notin MarkupChars
        /\ SubSeq(text, i, i) = "&"
              => \E e \in Entities :
                    /\ i + Len(e) - 1 <= Len(text)
                    /\ SubSeq(text, i, i + Len(e) - 1) = e

\* The fields the generator takes from the title and the MeetingAnalysis.
EscapedFields ==
    {"meeting_title", "content", "impact_level", "stakeholders", "assignee",
     "task", "priority", "deadline", "next_meeting", "positive", "negative",
     "neutral", "total_decisions", "total_actions", "high_impact_decisions",
     "avg_confidence"}

\* C27: generate_executive_email HTML-escapes every value it takes from the
\* title or the MeetingAnalysis (decision content, impact level,
\* stakeholders, assignee, task, priority, deadline, next_meeting, the
\* sentiment and stats values) before it puts it into the HTML, for the
\* analyses of both analyzers.
C27_EveryValueIsEscaped ==
    ui.at = "emailed"
    => \A i \in 1..Len(ui.html_email.values) :
          ui.html_email.values[i].field \in EscapedFields
          => /\ IsEscaped(ui.html_email.values[i].text)
             /\ ui.html_email.values[i].text
                   = html_escape(ui.html_email.values[i].raw)

\* The same for every field but the priority.
C27_AllButPriorityEscaped ==
    ui.at = "emailed"
    => \A i \in 1..Len(ui.html_email.values) :
          ui.html_email.values[i].field \in EscapedFields \ {"priority"}
          => /\ IsEscaped(ui.html_email.values[i].text)
             /\ ui.html_email.values[i].text
                   = html_escape(ui.html_email.values[i].raw)


\* The number n as a value of summary_stats: the int n, or the float n.0.
IsCount(value, n) == value = PyInt(n) \/ value = PyFloat(100 * n)

HighImpact(ds) == Len(SelectSeq(ds, LAMBDA d : d.impact_level = "High"))
Critical(as) == Len(SelectSeq(as, LAMBDA a : a.priority = "critical"))

\* summary_stats of an analysis of EnterpriseAnalyzer agrees with its lists.
PatternStatsConsistent(analysis) ==
    /\ analysis.summary_stats.total_decisions = Len(analysis.decisions)
    /\ analysis.summary_stats.total_actions = Len(analysis.action_items)
    /\ analysis.summary_stats.high_impact_decisions
          = HighImpact(analysis.decisions)
    /\ analysis.summary_stats.critical_actions
          = Critical(analysis.action_items)

\* summary_stats of an analysis of LLMAnalyzer, a dict, agrees with its
\* lists.
LLMStatsConsistent(analysis) ==
    LET count(key) == Get(analysis.summary_stats, key, PyNone)
    IN  /\ IsCount(count("total_decisions"), Len(analysis.decisions))
        /\ IsCount(count("total_actions"), Len(analysis.action_items))
        /\ IsCount(count("high_impact_decisions"),
                   HighImpact(analysis.decisions))
        /\ IsCount(count("critical_actions"),
                   Critical(analysis.action_items))

\* C28: in every MeetingAnalysis either analyzer returns, summary_stats
\* agrees with the lists of the same record: total_decisions is
\* len(decisions), total_actions is len(action_items), high_impact_decisions
\* counts the decisions of impact 'High' and critical_actions the action
\* items of priority 'critical'.
C28_StatsAgreeWithLists ==
    (pc = "done" /\ raised = "none" /\ result # NoResult)
    => IF analyzer = "llm" THEN LLMStatsConsistent(result)
       ELSE PatternStatsConsistent(result)

\* The same for the analyses of EnterpriseAnalyzer and for the fallback of
\* LLMAnalyzer, which build summary_stats themselves.
C28_BuiltStatsAgreeWithLists ==
    (pc = "done" /\ raised = "none" /\ result # NoResult)
    => /\ analyzer = "pattern" => PatternStatsConsistent(result)
       /\ (analyzer = "llm" /\ result.summary_stats = FALLBACK_STATS
           /\ result.decisions = <<>>)
          => LLMStatsConsistent(result)


\* The set attendees at the end of the loop of the modular _extract_metadata.
ModularAttendees(seed, text) ==
    MetadataLoop(seed, preprocess_text(text), 1, NOT_SPECIFIED, {}).attendees

\* What the two revisions agree on whatever the transcript.
RevisionsAgreeButForAttendees(summary, analysis) ==
    /\ summary.decisions = analysis.decisions
    /\ summary.action_items = analysis.action_items
    /\ summary.metadata.next_meeting = analysis.metadata.next_meeting
    /\ summary.metadata.meeting_length = analysis.metadata.meeting_length
    /\ summary.sentiment = analysis.sentiment
    /\ summary.risks = analysis.risks
    /\ summary.summary_stats = analysis.summary_stats

\* C29: the two revisions of the pattern engine are equivalent: for every
\* transcript extract_advanced_summary of app.py and the modular
\* analyze_meeting give the same decisions, action items, next_meeting, set
\* of attendees before it is ordered, meeting_length, sentiment, risks and
\* summary_stats.
C29_RevisionsAreEquivalent ==
    (analyzer = "app" /\ pc = "done")
    => /\ RevisionsAgreeButForAttendees(result,
             analyze_text(hashSeed, transcript.text))
       /\ app_attendees(sentences)
             = ModularAttendees(hashSeed, transcript.text)

\* The same without the attendees.
C29_EquivalentButForAttendees ==
    (analyzer = "app" /\ pc = "done")
    => RevisionsAgreeButForAttendees(result,
          analyze_text(hashSeed, transcript.text))


\* The steps of LLMAnalyzer.analyze_meeting in the order of the code.
LLM_STEPS ==
    <<"validate", "invoke", "content", "clean", "parse", "convert",
      "assemble", "done">>
StepIndex(label) == CHOOSE i \in 1..Len(LLM_STEPS) : LLM_STEPS[i] = label

\* The transcript passes the validation of analyze_meeting.
ValidTranscript == transcript.kind = "str" /\ Strip(transcript.text) # <<>>

\* The call gave a fallback.
ReturnedFallback(analysis) == analysis # NoResult /\ IsFallback(analysis)

\* C30: in LLMAnalyzer.analyze_meeting the validation precedes the remote
\* call and nothing is retried: the remote service is invoked at most once
\* per call, and only after a valid transcript; a transcript that is no str
\* or is empty after trimming gets the fallback 'Analysis Error: Empty or
\* invalid transcript provided' with no invocation; and the step that fails
\* ends the call, so no later step runs.
C30_ValidationFirstNoRetry ==
    /\ [](analyzer = "llm"
          => /\ invocations <= 1
             /\ ~ValidTranscript => invocations = 0 /\ remote = NoRemote
             /\ (~ValidTranscript /\ pc = "done")
                => /\ raised = "none"
                   /\ result.risks = <<"Analysis Error: Empty or invalid "
                                       \o "transcript provided">>
                   /\ ReturnedFallback(result))
    /\ [][(analyzer = "llm" /\ analyzer' = "llm" /\ pc # "idle")
          => /\ invocations' # invocations
                => /\ pc = "invoke" /\ ValidTranscript
                   /\ invocations = 0 /\ invocations' = 1
             /\ pc' # pc
                => \/ StepIndex(pc') = StepIndex(pc) + 1
                   \/ /\ pc' = "done"
                      /\ raised' # "none" \/ ReturnedFallback(result')
             /\ (raised' # "none" \/ result' # NoResult) => pc' = "done"
             /\ pc = "done"
                => UNCHANGED <<invocations, remote, response_text, parsed,
                               decisions, action_items, result, raised>>]_vars

\* A call with a transcript of whitespace only has ended: the fallback is
\* returned and the remote service was never invoked.
C30_Witness ==
    /\ analyzer = "llm" /\ pc = "done"
    /\ transcript = Str(<<" ", "\n">>)
    /\ invocations = 0 /\ remote = NoRemote
    /\ result.risks
          = <<"Analysis Error: Empty or invalid transcript provided">>

\* A call has ended at step 4: the reply was no JSON, the service was
\* invoked once and nothing was converted.
C30_FailedAtParsing ==
    /\ analyzer = "llm" /\ pc = "done"
    /\ remote = Returns("message", PyStr(PROSE))
    /\ invocations = 1 /\ ReturnedFallback(result)
    /\ parsed = <<>> /\ decisions = <<>>

====
